---- MODULE Spec2Model ----
(***************************************************************************)
(* A model of the semantic compilation layer of a2x (ALFA to XACML 3.0):   *)
(* the generic Entity Resolver and its six namespace resolution rules, the *)
(* Context (resolvers, per-namespace counters, imports, used-URI set), the *)
(* deferred naming of anonymous Policies/PolicySets, and deconditioning.   *)
(*                                                                         *)
(* Strings are TLA+ strings and are joined as the code joins them, so a    *)
(* fully-qualified name is the dotted string the code uses as a map key.   *)
(* Option<T> is a sequence of length at most one.                          *)
(***************************************************************************)
EXTENDS Integers, Sequences, FiniteSets, TLC

VARIABLES
    phase,                \* "build" (AST construction), "convert", "failed"
    imports,              \* Context.imports: namespace -> Seq(Import)
    rule_resolver,        \* Context.rule_resolver.elements
    lookupCall,           \* the last Context::lookup_rule call and its result
    policy_resolver,      \* Context.policy_resolver.elements
    policyset_resolver,   \* Context.policyset_resolver.elements
    used_uris,            \* Context.used_uris
    policy_id_mapping,    \* Context.policy_id_mapping
    policyset_id_mapping, \* Context.policyset_id_mapping
    rule_id_mapping,      \* Context.rule_id_mapping
    slots,                \* the heap of NameSlot cells (Rc<RefCell<Option<String>>>)
    top,                  \* top-level policies/policysets of the AstCollection
    regCall,              \* the last register_policy / register_policyset call
    lastConv,             \* the last top-level conversion and what it produced
    exprCall,             \* the last target match or condition compiled
    decCall               \* the last decondition call made on a declared element

vars == <<phase, imports, rule_resolver, lookupCall, policy_resolver,
          policyset_resolver, used_uris, policy_id_mapping,
          policyset_id_mapping, rule_id_mapping, slots, top, regCall, lastConv,
          exprCall, decCall>>

-----------------------------------------------------------------------------
(* Bounds of the model *)

\* import statements registered besides the built-in one
MaxImports == 2
\* policies and policysets declared in the sources, nested ones included
MaxElems == 3

-----------------------------------------------------------------------------
(* Option and Result values *)

None == <<>>
Some(x) == <<x>>
IsSome(o) == Len(o) > 0
IsNone(o) == Len(o) = 0
Unwrap(o) == o[1]

Ok(v) == [ok |-> TRUE, val |-> v]
Err(e) == [ok |-> FALSE, err |-> e]

EmptyMap == <<>>

\* F applied to the value of v
With(v, F(_)) == CHOOSE r \in { F(x) : x \in {v} } : TRUE

\* Vec<String>::join(sep)
RECURSIVE Join(_, _)
Join(parts, sep) ==
    IF Len(parts) = 0 THEN ""
    ELSE IF Len(parts) = 1 THEN parts[1]
    ELSE parts[1] \o sep \o Join(Tail(parts), sep)

Last(s) == s[Len(s)]

\* SrcLoc::default: the location given when a caller has none
SrcLoc_default == [src |-> "<default>", span |-> <<0, 0>>]
\* the location of the n-th construct of the source file
SrcLoc(n) == [src |-> "main.alfa", span |-> <<n, 1>>]

\* the name of the error that a located error message stands for
ErrorNamed(msg) ==
    CASE msg = "All referenced symbols must be defined" -> "SymbolNotFound"
      [] OTHER -> "ConditionBooleanRequired"

\* SrcError::err: a located error
SrcError_err(msg, label, src_loc) ==
    Err([name |-> ErrorNamed(msg), msg |-> msg, label |-> label, src_loc |-> src_loc])

-----------------------------------------------------------------------------
(* Constants of the program *)

SYSTEM_NS == "_A2X"
PROTECTED_NS == "_A2X.PROTECTED"

\* the import registered by Context::add_standard_defs
StandardImport == [components |-> <<SYSTEM_NS>>, is_wildcard |-> TRUE]

-----------------------------------------------------------------------------
(* Resolver<T> *)

\* a variant that rebinds a name that is already bound
ResolverRegister_Rebinds(elements, fqopt, elem) ==
    IF IsSome(fqopt)
    THEN IF Unwrap(fqopt) \notin DOMAIN elements
         THEN [elements |-> elements @@ (Unwrap(fqopt) :> elem), res |-> Ok(TRUE)]
         ELSE [elements |-> [elements EXCEPT ![Unwrap(fqopt)] = elem],
               res |-> Err("DuplicateSymbol")]
    ELSE [elements |-> elements, res |-> Ok(TRUE)]

\* Resolver::register on an element whose fully-qualified name is fqopt
ResolverRegister(elements, fqopt, elem) ==
    IF IsSome(fqopt)
    THEN IF Unwrap(fqopt) \notin DOMAIN elements
         THEN [elements |-> elements @@ (Unwrap(fqopt) :> elem), res |-> Ok(TRUE)]
         ELSE [elements |-> elements, res |-> Err("DuplicateSymbol")]
    ELSE [elements |-> elements, res |-> Ok(TRUE)]

exists_fq(elements, fq_name) == fq_name \in DOMAIN elements

match_one_and_only(matches) ==
    IF Len(matches) > 0
    THEN IF Len(matches) = 1 THEN Ok(Some(matches[1])) ELSE Err("AmbiguousImport")
    ELSE Ok(None)

\* the elements found under a sequence of candidate names, in order
FoundAt(elements, candidates) ==
    LET hits == SelectSeq(candidates, LAMBDA c : c \in DOMAIN elements)
    IN  [k \in 1..Len(hits) |-> elements[hits[k]]]

\* the imports whose last component is the symbol
NamingSymbol(static_imports, symbol) ==
    SelectSeq(static_imports,
              LAMBDA i : Len(i.components) > 0 /\ Last(i.components) = symbol)

lookup_source_namespace(elements, symbol, source_ns) ==
    LET candidate == Join(source_ns, ".") \o "." \o symbol
    IN  IF candidate \in DOMAIN elements THEN Some(elements[candidate]) ELSE None

lookup_root(elements, symbol) ==
    IF symbol \in DOMAIN elements THEN Some(elements[symbol]) ELSE None

lookup_static_import_child(elements, symbol, source_ns, static_imports) ==
    LET sel == NamingSymbol(static_imports, symbol)
        cands == [k \in 1..Len(sel) |->
                    Join(source_ns, ".") \o "." \o Join(sel[k].components, ".")]
    IN  match_one_and_only(FoundAt(elements, cands))

lookup_static_import_qualified(elements, symbol, static_imports) ==
    LET sel == NamingSymbol(static_imports, symbol)
        cands == [k \in 1..Len(sel) |-> Join(sel[k].components, ".")]
    IN  match_one_and_only(FoundAt(elements, cands))

lookup_wildcard_child(elements, symbol, source_ns, wildcard_imports) ==
    LET cands == [k \in 1..Len(wildcard_imports) |->
                    Join(source_ns, ".") \o "."
                    \o Join(wildcard_imports[k].components, ".") \o "." \o symbol]
    IN  match_one_and_only(FoundAt(elements, cands))

lookup_wildcard_qualified(elements, symbol, wildcard_imports) ==
    LET cands == [k \in 1..Len(wildcard_imports) |->
                    Join(wildcard_imports[k].components, ".") \o "." \o symbol]
    IN  match_one_and_only(FoundAt(elements, cands))

\* rules 3 to 6, tried in order once the imports are known
lookup_imports(elements, symbol, source_ns, imps, not_found) ==
    LET wildcard_imports == SelectSeq(imps, LAMBDA n : n.is_wildcard)
        static_imports == SelectSeq(imps, LAMBDA n : ~n.is_wildcard)
        r3 == lookup_static_import_child(elements, symbol, source_ns, static_imports)
        r4 == lookup_static_import_qualified(elements, symbol, static_imports)
        r5 == lookup_wildcard_child(elements, symbol, source_ns, wildcard_imports)
        r6 == lookup_wildcard_qualified(elements, symbol, wildcard_imports)
    IN  IF ~r3.ok THEN r3
        ELSE IF IsSome(r3.val) THEN Ok(Unwrap(r3.val))
        ELSE IF ~r4.ok THEN r4
        ELSE IF IsSome(r4.val) THEN Ok(Unwrap(r4.val))
        ELSE IF ~r5.ok THEN r5
        ELSE IF IsSome(r5.val) THEN Ok(Unwrap(r5.val))
        ELSE IF ~r6.ok THEN r6
        ELSE IF IsSome(r6.val) THEN Ok(Unwrap(r6.val))
        ELSE not_found

\* a variant that consults the imports before the source namespace and the root
lookup_ImportsFirst(type_name, elements, symbol, source_ns, src_loc, imports_opt) ==
    LET r1 == lookup_source_namespace(elements, symbol, source_ns)
        r2 == lookup_root(elements, symbol)
        not_found == SrcError_err("All referenced symbols must be defined",
                                  "this " \o type_name \o " could not be resolved",
                                  src_loc)
        late == IF IsSome(r1) THEN Ok(Unwrap(r1))
                ELSE IF IsSome(r2) THEN Ok(Unwrap(r2))
                ELSE not_found
    IN  IF IsSome(imports_opt)
        THEN lookup_imports(elements, symbol, source_ns, Unwrap(imports_opt), late)
        ELSE late

\* Resolver::lookup
lookup(type_name, elements, symbol, source_ns, src_loc, imports_opt) ==
    LET r1 == lookup_source_namespace(elements, symbol, source_ns)
        r2 == lookup_root(elements, symbol)
        not_found == SrcError_err("All referenced symbols must be defined",
                                  "this " \o type_name \o " could not be resolved",
                                  src_loc)
    IN  IF IsSome(r1) THEN Ok(Unwrap(r1))
        ELSE IF IsSome(r2) THEN Ok(Unwrap(r2))
        ELSE IF IsSome(imports_opt)
             THEN lookup_imports(elements, symbol, source_ns, Unwrap(imports_opt),
                                 not_found)
             ELSE not_found

-----------------------------------------------------------------------------
(* Context: imports *)

\* Context::register_import
register_import(imps, ns, rc) ==
    LET n == Join(ns, ".")
    IN  IF n \in DOMAIN imps
        THEN [imps EXCEPT ![n] = Append(@, rc)]
        ELSE imps @@ (n :> <<rc>>)

\* a variant in which the imports written in a namespace replace the defaults
get_imports_LocalOnly(imps, source_ns) ==
    LET n == Join(source_ns, ".")
    IN  IF n \in DOMAIN imps THEN Some(imps[n])
        ELSE IF SYSTEM_NS \in DOMAIN imps THEN Some(imps[SYSTEM_NS]) ELSE None

\* Context::get_imports
get_imports(imps, source_ns) ==
    LET n == Join(source_ns, ".")
        imports_default == IF SYSTEM_NS \in DOMAIN imps THEN Some(imps[SYSTEM_NS]) ELSE None
    IN  IF n \in DOMAIN imps
        THEN Some(imps[n] \o (IF IsSome(imports_default) THEN Unwrap(imports_default) ELSE <<>>))
        ELSE imports_default

\* number of import statements held by the Context
RECURSIVE ImportCount(_, _)
ImportCount(imps, keys) ==
    IF keys = {} THEN 0
    ELSE LET k == CHOOSE x \in keys : TRUE
         IN  Len(imps[k]) + ImportCount(imps, keys \ {k})

-----------------------------------------------------------------------------
(* Rules declared at namespace level, and references to them *)

\* namespaces in which the modelled sources declare rules
RuleNamespaces == {<<"A">>, <<"B">>, <<"C">>, <<"A", "B">>}
RuleNames == {"R1"}
\* symbols as written in a policy body, and the namespaces they are written in
RuleSymbols == {"R1", "B.R1"}
SourceNamespaces == {<<"A">>}
\* combining algorithms as named in an apply statement
ApplySymbols == {"firstApplicable", "R1"}
\* import statements of the modelled sources and where they are written
ImportChoices ==
    { [components |-> c, is_wildcard |-> FALSE] : c \in {<<"B", "R1">>, <<"C", "R1">>} }
    \cup { [components |-> c, is_wildcard |-> TRUE] : c \in {<<"B">>, <<"C">>} }
ImportNamespaces == {<<"A">>, <<SYSTEM_NS>>}

\* a RuleDef declared directly in a namespace (its policy_ns is empty)
RuleDef(ns, id) == [id |-> Some(id), ns |-> ns, effect |-> "Permit"]

\* QualifiedName for RuleDef
rule_fully_qualified_name(r) ==
    IF IsSome(r.id)
    THEN Some(Join(r.ns, ".") \o (IF Len(r.ns) > 0 THEN "." ELSE "") \o Unwrap(r.id))
    ELSE None

\* Context::lookup_rule
lookup_rule(symbol, source_ns, src_loc) ==
    lookup("RuleDef", rule_resolver, symbol, source_ns, src_loc,
           get_imports(imports, source_ns))

OnPermitApplySecondUri ==
    "urn:oasis:names:tc:xacml:3.0:policy-combining-algorithm:on-permit-apply-second"
PolicyFirstApplicableUri ==
    "urn:oasis:names:tc:xacml:1.0:policy-combining-algorithm:first-applicable"
RulePermitOverridesUri ==
    "urn:oasis:names:tc:xacml:3.0:rule-combining-algorithm:permit-overrides"
RuleFirstApplicableUri ==
    "urn:oasis:names:tc:xacml:1.0:rule-combining-algorithm:first-applicable"

\* the policy combinators of the protected and standard definitions that the
\* modelled sources and deconditioning refer to
policycombinator_resolver ==
    (PROTECTED_NS \o ".onPermitApplySecond" :> [uri |-> OnPermitApplySecondUri])
    @@ (SYSTEM_NS \o ".firstApplicable" :> [uri |-> PolicyFirstApplicableUri])

\* the rule combinators, likewise
rulecombinator_resolver ==
    (PROTECTED_NS \o ".permitOverrides" :> [uri |-> RulePermitOverridesUri])
    @@ (SYSTEM_NS \o ".firstApplicable" :> [uri |-> RuleFirstApplicableUri])

\* Context::lookup_policy_combinator
lookup_policy_combinator(symbol, source_ns) ==
    lookup("PolicyCombinator", policycombinator_resolver, symbol, source_ns,
           SrcLoc_default, get_imports(imports, source_ns))

\* Context::lookup_rule_combinator
lookup_rule_combinator(symbol, source_ns, src_loc) ==
    lookup("RuleCombinator", rulecombinator_resolver, symbol, source_ns,
           src_loc, get_imports(imports, source_ns))

\* Context::lookup_policy
lookup_policy(symbol, source_ns) ==
    lookup("Policy", policy_resolver, symbol, source_ns,
           SrcLoc_default, get_imports(imports, source_ns))

mainVars == <<policy_resolver, policyset_resolver, used_uris, policy_id_mapping,
              policyset_id_mapping, rule_id_mapping, slots, top, regCall, lastConv,
              exprCall, decCall>>

NoCall == [called |-> FALSE]

\* Namespace::add_rule -> Context::register_rule
AddRule(ns, id) ==
    /\ phase = "build"
    /\ LET r == RuleDef(ns, id)
           out == ResolverRegister(rule_resolver, rule_fully_qualified_name(r), r)
       IN  /\ rule_resolver' = out.elements
           /\ phase' = IF out.res.ok THEN "build" ELSE "failed"
    /\ UNCHANGED <<imports, lookupCall, mainVars>>

\* Namespace::add_import -> Context::register_import
AddImport(ns, imp) ==
    /\ phase = "build"
    /\ ImportCount(imports, DOMAIN imports) < MaxImports + 1
    /\ imports' = register_import(imports, ns, imp)
    /\ UNCHANGED <<phase, rule_resolver, lookupCall, mainVars>>

\* alfa_compile: every source is parsed, conversion starts
StartConversion ==
    /\ phase = "build"
    /\ phase' = "convert"
    /\ UNCHANGED <<imports, rule_resolver, lookupCall, mainVars>>

\* a rule reference written at src_loc in a policy body is resolved
\* (XPolicy::try_from)
LookupRule(symbol, source_ns, src_loc) ==
    /\ phase = "convert"
    /\ lookupCall' = [called |-> TRUE, which |-> "RuleDef", symbol |-> symbol,
                      source_ns |-> source_ns, src_loc |-> src_loc,
                      imports |-> get_imports(imports, source_ns),
                      res |-> lookup_rule(symbol, source_ns, src_loc)]
    /\ UNCHANGED <<phase, imports, rule_resolver, mainVars>>

\* the combining algorithm named by the apply statement written at src_loc
\* in a policyset is resolved (XPolicySet::try_from)
LookupPolicyCombinator(symbol, source_ns, src_loc) ==
    /\ phase = "convert"
    /\ lookupCall' = [called |-> TRUE, which |-> "PolicyCombinator", symbol |-> symbol,
                      source_ns |-> source_ns, src_loc |-> src_loc,
                      imports |-> get_imports(imports, source_ns),
                      res |-> lookup_policy_combinator(symbol, source_ns)]
    /\ UNCHANGED <<phase, imports, rule_resolver, mainVars>>

\* Context::new
InitContext ==
    /\ imports = (SYSTEM_NS :> <<StandardImport>>)
    /\ policy_resolver = EmptyMap
    /\ policyset_resolver = EmptyMap
    /\ used_uris = {}
    /\ policy_id_mapping = EmptyMap
    /\ policyset_id_mapping = EmptyMap
    /\ rule_id_mapping = EmptyMap

InitLookup ==
    /\ InitContext
    /\ phase = "build"
    /\ rule_resolver = EmptyMap
    /\ lookupCall = NoCall
    /\ slots = <<>>
    /\ top = <<>>
    /\ regCall = NoCall
    /\ lastConv = NoCall
    /\ exprCall = NoCall
    /\ decCall = NoCall

NextLookup ==
    \/ \E ns \in RuleNamespaces, id \in RuleNames : AddRule(ns, id)
    \/ \E ns \in ImportNamespaces, imp \in ImportChoices : AddImport(ns, imp)
    \/ StartConversion
    \/ \E symbol \in RuleSymbols, ns \in SourceNamespaces :
          LookupRule(symbol, ns, SrcLoc(1))
    \/ \E symbol \in ApplySymbols, ns \in SourceNamespaces :
          LookupPolicyCombinator(symbol, ns, SrcLoc(2))

\* rules, imports and rule references only
SpecLookup == InitLookup /\ [][NextLookup]_vars

-----------------------------------------------------------------------------
(* Properties of Resolver::lookup, over the rule references of SpecLookup *)

\* the elements of the resolver the last lookup went to
CallElements ==
    IF lookupCall.which = "RuleDef" THEN rule_resolver ELSE policycombinator_resolver

\* the import statements in effect where the last lookup was written
ActiveImports ==
    LET o == get_imports(imports, lookupCall.source_ns)
    IN  IF IsSome(o) THEN Unwrap(o) ELSE <<>>

\* whether rule k (3..6) considers an import statement for a symbol
RuleConsiders(k, imp, symbol) ==
    IF k \in {3, 4}
    THEN ~imp.is_wildcard /\ Len(imp.components) > 0 /\ Last(imp.components) = symbol
    ELSE imp.is_wildcard

\* the name rule k (3..6) forms from an import statement
RuleCandidate(k, imp, symbol, source_ns) ==
    CASE k = 3 -> Join(source_ns, ".") \o "." \o Join(imp.components, ".")
      [] k = 4 -> Join(imp.components, ".")
      [] k = 5 -> Join(source_ns, ".") \o "." \o Join(imp.components, ".") \o "." \o symbol
      [] k = 6 -> Join(imp.components, ".") \o "." \o symbol

\* the import statements through which rule k finds a registered rule
RuleHits(k) ==
    { j \in 1..Len(ActiveImports) :
        /\ RuleConsiders(k, ActiveImports[j], lookupCall.symbol)
        /\ RuleCandidate(k, ActiveImports[j], lookupCall.symbol, lookupCall.source_ns)
             \in DOMAIN CallElements }

\* the distinct rules that rule k finds
RuleEntities(k) ==
    { CallElements[RuleCandidate(k, ActiveImports[j], lookupCall.symbol,
                                  lookupCall.source_ns)] : j \in RuleHits(k) }

ChildName == Join(lookupCall.source_ns, ".") \o "." \o lookupCall.symbol

RuleMatches(k) ==
    CASE k = 1 -> ChildName \in DOMAIN CallElements
      [] k = 2 -> lookupCall.symbol \in DOMAIN CallElements
      [] OTHER -> RuleHits(k) # {}

\* the first of the six rules that yields a match, 0 when none does
FirstMatchingRule ==
    IF \E k \in 1..6 : RuleMatches(k)
    THEN CHOOSE k \in 1..6 : RuleMatches(k) /\ \A j \in 1..(k - 1) : ~RuleMatches(j)
    ELSE 0

\* C1: lookup returns the entity of the first rule, in the order 1..6, that
\* yields a match: a child match wins over everything, then a root match,
\* then the first of rules 3..6 whose imports find an entity; no later rule
\* changes the result or raises an error.
C1_FirstRuleDecides ==
    lookupCall.called =>
        LET k == FirstMatchingRule
            res == lookupCall.res
        IN  /\ k = 1 => res = Ok(CallElements[ChildName])
            /\ k = 2 => res = Ok(CallElements[lookupCall.symbol])
            /\ k \in 3..6 =>
                 /\ res.ok => res.val \in RuleEntities(k)
                 /\ Cardinality(RuleEntities(k)) = 1 => res.ok

\* C2 as claimed: within rules 3..6 more than one distinct matching entity
\* gives AmbiguousImport, exactly one distinct entity is returned.
C2_DistinctMatches ==
    lookupCall.called =>
        LET k == FirstMatchingRule
        IN  k \in 3..6 =>
              /\ Cardinality(RuleEntities(k)) > 1 => lookupCall.res = Err("AmbiguousImport")
              /\ Cardinality(RuleEntities(k)) = 1 =>
                    /\ lookupCall.res.ok
                    /\ lookupCall.res.val \in RuleEntities(k)

-----------------------------------------------------------------------------
(* Deferred naming: NameSlot and GenName *)

\* a variant that looks at the last slot only
is_resolvable_LastOnly(sl, name_path) ==
    Len(name_path) = 0 \/ ~IsNone(sl[name_path[Len(name_path)]])

\* GenName::is_resolvable
is_resolvable(sl, name_path) ==
    \A k \in 1..Len(name_path) : ~IsNone(sl[name_path[k]])

\* GenName::build_path
build_path(sl, name_path, sep) ==
    IF \A k \in 1..Len(name_path) : IsSome(sl[name_path[k]])
    THEN Some(Join([k \in 1..Len(name_path) |-> Unwrap(sl[name_path[k]])], sep))
    ELSE None

\* GenName::last_elem
last_elem(name_path) ==
    IF Len(name_path) = 0 THEN None ELSE Some(Last(name_path))

\* GenName::push_name_at_index (Vec::insert at a 0-based index)
push_name_at_index(name_path, elem, idx) ==
    SubSeq(name_path, 1, idx) \o <<elem>> \o SubSeq(name_path, idx + 1, Len(name_path))

-----------------------------------------------------------------------------
(* Policies and PolicySets *)

PolicyNoName == [tag |-> "PolicyNoName", name |-> "", uri |-> ""]
PolicyName(s) == [tag |-> "PolicyName", name |-> s, uri |-> ""]
PolicyNameAndId(s, i) == [tag |-> "PolicyNameAndId", name |-> s, uri |-> i]

\* Config::get_base_namespace, no base namespace configured
BaseNamespace == "https://sr.ht/~gheartsfield/a2x/alfa/ident/"

\* QualifiedName for Policy and for PolicySet
fully_qualified_name(sl, e) ==
    IF e.id.tag = "PolicyNoName" THEN None
    ELSE LET path == build_path(sl, e.policy_ns, ".")
         IN  IF IsNone(path) THEN None
             ELSE Some(Join(e.ns, ".") \o "." \o Unwrap(path))

\* a stand-in for the time-based identifier of Uuid::now_v7
UuidUrn == "urn:uuid:"

\* Policy::get_id and PolicySet::get_id
get_id(sl, e) ==
    LET ppath_res == build_path(sl, e.policy_ns, "/")
    IN  IF IsSome(ppath_res)
        THEN IF e.id.tag = "PolicyNameAndId" THEN e.id.uri
             ELSE BaseNamespace \o Join(e.ns, "/") \o "/" \o Unwrap(ppath_res)
        ELSE UuidUrn

\* Policy::get_filename and PolicySet::get_filename
get_filename(sl, e) ==
    LET b == last_elem(e.policy_ns)
    IN  IF IsNone(b) THEN None
        ELSE IF IsNone(sl[Unwrap(b)]) THEN None
        ELSE Some(Join(e.ns, ".") \o "." \o Unwrap(sl[Unwrap(b)]) \o ".xml")

-----------------------------------------------------------------------------
(* The declarations of the modelled sources *)

\* namespaces holding policies and policysets
PolicyNamespaces == {<<"A">>, <<"B">>}
\* the URI an author writes after a name; any string is accepted
AuthorUri == BaseNamespace \o "A/policy_0"
\* how a declaration is named: anonymous, named, named with an explicit URI
DeclIds == {PolicyNoName, PolicyName("policy_0"), PolicyNameAndId("policy_0", AuthorUri)}
\* whether a declaration carries a condition, a target and a description
DeclBodies == {"plain", "guarded"}

\* declarations made of exactly n policies/policysets: a policy, or a
\* policyset with its nested declarations
RECURSIVE DeclsOfSize(_), DeclSeqsOfSize(_)
DeclsOfSize(n) ==
    IF n < 1 THEN {}
    ELSE { [kind |-> "PolicySet", id |-> i, body |-> b, kids |-> ks] :
             i \in DeclIds, b \in DeclBodies, ks \in DeclSeqsOfSize(n - 1) }
         \cup (IF n = 1
               THEN { [kind |-> "Policy", id |-> i, body |-> b, kids |-> <<>>] :
                        i \in DeclIds, b \in DeclBodies }
               ELSE {})
DeclSeqsOfSize(m) ==
    IF m = 0 THEN {<<>>}
    ELSE UNION { { <<x>> \o rest : x \in DeclsOfSize(k), rest \in DeclSeqsOfSize(m - k) } :
                 k \in 1..m }

\* the declarations a source file can hold, by number of elements
Decls == [n \in 1..MaxElems |-> DeclsOfSize(n)]

\* the condition, target and description written in a guarded declaration;
\* the texts differ from one declaration to the next
BodyText(body, what, own) ==
    IF body = "guarded" THEN Some(what \o ToString(own)) ELSE None

\* a variant in which the Policy's path starts afresh with its own slot
process_policy_OwnSlotOnly(sl, ns, parent_policy_path, d) ==
    LET own == Len(sl) + 1
        cell == IF d.id.tag = "PolicyNoName" THEN None ELSE Some(d.id.name)
        path == <<own>>
        rule == [id |-> None, ns |-> ns, policy_ns |-> path, effect |-> "Deny",
                 target |-> None, condition |-> None]
    IN  [slots |-> Append(sl, cell),
         elem |-> [kind |-> "Policy", id |-> d.id, ns |-> ns, policy_ns |-> path,
                   description |-> BodyText(d.body, "D", own),
                   target |-> BodyText(d.body, "T", own),
                   condition |-> BodyText(d.body, "C", own),
                   apply |-> "firstApplicable", src_loc |-> SrcLoc(own),
                   rules |-> <<rule>>, policies |-> <<>>]]

\* process_policy: the Policy built from a declaration; its own NameSlot is
\* created after the slots of the enclosing policysets
process_policy(sl, ns, parent_policy_path, d) ==
    LET own == Len(sl) + 1
        cell == IF d.id.tag = "PolicyNoName" THEN None ELSE Some(d.id.name)
        path == Append(parent_policy_path, own)
        rule == [id |-> None, ns |-> ns, policy_ns |-> path, effect |-> "Deny",
                 target |-> None, condition |-> None]
    IN  [slots |-> Append(sl, cell),
         elem |-> [kind |-> "Policy", id |-> d.id, ns |-> ns, policy_ns |-> path,
                   description |-> BodyText(d.body, "D", own),
                   target |-> BodyText(d.body, "T", own),
                   condition |-> BodyText(d.body, "C", own),
                   apply |-> "firstApplicable", src_loc |-> SrcLoc(own),
                   rules |-> <<rule>>, policies |-> <<>>]]

\* process_policyset: the PolicySet built from a declaration and, in order,
\* its nested declarations, which receive the enclosing path
RECURSIVE process_policyset(_, _, _, _), process_children(_, _, _, _)
process_policyset(sl, ns, parent_policy_path, d) ==
    LET own == Len(sl) + 1
        cell == IF d.id.tag = "PolicyNoName" THEN None ELSE Some(d.id.name)
        path == Append(parent_policy_path, own)
    IN  With(process_children(Append(sl, cell), ns, path, d.kids), LAMBDA kids :
          [slots |-> kids.slots,
           elem |-> [kind |-> "PolicySet", id |-> d.id, ns |-> ns, policy_ns |-> path,
                     description |-> BodyText(d.body, "D", own),
                     target |-> BodyText(d.body, "T", own),
                     condition |-> BodyText(d.body, "C", own),
                     apply |-> "firstApplicable", src_loc |-> SrcLoc(own),
                     rules |-> <<>>, policies |-> kids.elems]])
process_children(sl, ns, path, ds) ==
    IF Len(ds) = 0 THEN [slots |-> sl, elems |-> <<>>]
    ELSE With(IF ds[1].kind = "Policy"
              THEN process_policy(sl, ns, path, ds[1])
              ELSE process_policyset(sl, ns, path, ds[1]), LAMBDA first :
         With(process_children(first.slots, ns, path, Tail(ds)), LAMBDA rest :
           [slots |-> rest.slots, elems |-> <<first.elem>> \o rest.elems]))

-----------------------------------------------------------------------------
(* Context: registration of policies and policysets *)

\* The Context fields that registration writes, with a record of every
\* Resolver::register invocation made (log): the name, whether it was bound
\* before the invocation, whether every earlier binding is still as it was
\* after it, and the result.
RegState == [used_uris |-> used_uris, policy_resolver |-> policy_resolver,
             policyset_resolver |-> policyset_resolver, log |-> <<>>, calls |-> <<>>]

\* a register_policy or register_policyset call returns ret; the record of
\* calls (calls) gets the element's id, whether its URI was in the used-URI
\* set when the call reached the point of its URI check (uri_seen), whether
\* the nested registrations all succeeded (kids_ok), and the result
Returned(fn, elem, uri_seen, kids_ok, ret) ==
    [ret EXCEPT !.ctx.calls = Append(@, [fn |-> fn, id |-> elem.id, ns |-> elem.ns,
                                         uri_seen |-> uri_seen, kids_ok |-> kids_ok,
                                         res |-> ret.res])]

Invocation(which, before, fq, out) ==
    [resolver |-> which, fq |-> fq,
     bound |-> IsSome(fq) /\ Unwrap(fq) \in DOMAIN before,
     kept |-> \A n \in DOMAIN before :
                 n \in DOMAIN out.elements /\ out.elements[n] = before[n],
     res |-> out.res]

\* a variant that records the URI without looking whether it is known
register_policy_AnyUri(c, sl, elem) ==
    LET withId == elem.id.tag = "PolicyNameAndId"
        c1 == IF withId THEN [c EXCEPT !.used_uris = @ \cup {elem.id.uri}] ELSE c
        fq == fully_qualified_name(sl, elem)
        out == ResolverRegister(c1.policy_resolver, fq, elem)
        seen == withId /\ elem.id.uri \in c.used_uris
    IN  Returned("register_policy", elem, seen, TRUE,
          IF IsSome(fq) /\ exists_fq(c1.policyset_resolver, Unwrap(fq))
          THEN [ctx |-> c1, res |-> Err("DuplicatePolicyEntity")]
          ELSE [ctx |-> [c1 EXCEPT !.policy_resolver = out.elements,
                                   !.log = Append(@, Invocation("policy", c1.policy_resolver, fq, out))],
                res |-> out.res])

\* a variant that binds the policy before it looks for a policyset of the
\* same name
register_policy_BindsFirst(c, sl, elem) ==
    LET withId == elem.id.tag = "PolicyNameAndId"
        c1 == IF withId THEN [c EXCEPT !.used_uris = @ \cup {elem.id.uri}] ELSE c
        fq == fully_qualified_name(sl, elem)
        out == ResolverRegister(c1.policy_resolver, fq, elem)
        seen == withId /\ elem.id.uri \in c.used_uris
        c2 == [c1 EXCEPT !.policy_resolver = out.elements,
                         !.log = Append(@, Invocation("policy", c1.policy_resolver, fq, out))]
    IN  Returned("register_policy", elem, seen, TRUE,
          IF seen
          THEN [ctx |-> c1, res |-> Err("DuplicateURI")]
          ELSE IF IsSome(fq) /\ exists_fq(c1.policyset_resolver, Unwrap(fq))
          THEN [ctx |-> c2, res |-> Err("DuplicatePolicyEntity")]
          ELSE [ctx |-> c2, res |-> out.res])

\* Context::register_policy
register_policy(c, sl, elem) ==
    LET withId == elem.id.tag = "PolicyNameAndId"
        \* HashSet::insert: the URI is in the set from here on
        c1 == IF withId THEN [c EXCEPT !.used_uris = @ \cup {elem.id.uri}] ELSE c
        fq == fully_qualified_name(sl, elem)
        out == ResolverRegister(c1.policy_resolver, fq, elem)
        seen == withId /\ elem.id.uri \in c.used_uris
    IN  Returned("register_policy", elem, seen, TRUE,
          IF seen
          THEN [ctx |-> c1, res |-> Err("DuplicateURI")]
          ELSE IF IsSome(fq) /\ exists_fq(c1.policyset_resolver, Unwrap(fq))
          THEN [ctx |-> c1, res |-> Err("DuplicatePolicyEntity")]
          ELSE [ctx |-> [c1 EXCEPT !.policy_resolver = out.elements,
                                   !.log = Append(@, Invocation("policy", c1.policy_resolver, fq, out))],
                res |-> out.res])

\* Context::register_policyset: the children first, in order, stopping at
\* the first error; then the policyset itself
RECURSIVE register_policyset(_, _, _), register_entries(_, _, _)
register_policyset(c, sl, elem) ==
    With(register_entries(c, sl, elem.policies), LAMBDA kids :
      LET c0 == kids.ctx
          withId == elem.id.tag = "PolicyNameAndId"
          c1 == IF withId THEN [c0 EXCEPT !.used_uris = @ \cup {elem.id.uri}] ELSE c0
          fq == fully_qualified_name(sl, elem)
          out == ResolverRegister(c1.policyset_resolver, fq, elem)
          seen == withId /\ elem.id.uri \in c0.used_uris
      IN  Returned("register_policyset", elem, seen, kids.res.ok,
            IF ~kids.res.ok THEN kids
            ELSE IF seen
            THEN [ctx |-> c1, res |-> Err("DuplicateURI")]
            ELSE IF IsSome(fq) /\ exists_fq(c1.policy_resolver, Unwrap(fq))
            THEN [ctx |-> c1, res |-> Err("DuplicatePolicyEntity")]
            ELSE [ctx |-> [c1 EXCEPT !.policyset_resolver = out.elements,
                                     !.log = Append(@, Invocation("policyset", c1.policyset_resolver, fq, out))],
                  res |-> out.res]))
register_entries(c, sl, entries) ==
    IF Len(entries) = 0 THEN [ctx |-> c, res |-> Ok(TRUE)]
    ELSE With(IF entries[1].kind = "Policy"
              THEN register_policy(c, sl, entries[1])
              ELSE register_policyset(c, sl, entries[1]), LAMBDA first :
           IF ~first.res.ok THEN first
           ELSE register_entries(first.ctx, sl, Tail(entries)))

lookupVars == <<rule_resolver, lookupCall, exprCall, decCall>>
counterVars == <<policy_id_mapping, policyset_id_mapping, rule_id_mapping>>

\* what a top-level declaration does to the Context and the AstCollection
Declared(built, out) ==
    /\ slots' = built.slots
    /\ top' = Append(top, built.elem)
    /\ used_uris' = out.ctx.used_uris
    /\ policy_resolver' = out.ctx.policy_resolver
    /\ policyset_resolver' = out.ctx.policyset_resolver
    /\ regCall' = [called |-> TRUE, elem |-> built.elem, res |-> out.res,
                   log |-> out.ctx.log, calls |-> out.ctx.calls]
    /\ phase' = IF out.res.ok THEN "build" ELSE "failed"
    /\ UNCHANGED <<imports, lookupVars, counterVars, lastConv>>

\* process_namespace on a policy declaration: process_policy, then
\* Namespace::add_policy
AddPolicy(ns, d) ==
    /\ phase = "build"
    /\ d.kind = "Policy"
    /\ Len(slots) + 1 <= MaxElems
    /\ \E built \in {process_policy(slots, ns, <<>>, d)} :
         \E out \in {register_policy(RegState, built.slots, built.elem)} :
            Declared(built, out)

\* process_namespace on a policyset declaration: process_policyset, then
\* Namespace::add_policyset
AddPolicySet(ns, d) ==
    /\ phase = "build"
    /\ d.kind = "PolicySet"
    /\ \E built \in {process_policyset(slots, ns, <<>>, d)} :
         \E out \in {register_policyset(RegState, built.slots, built.elem)} :
            Declared(built, out)

-----------------------------------------------------------------------------
(* Context: counters and combining algorithms *)

\* a variant whose counter stops advancing at 1
get_next_policy_id_Capped(map, ns) ==
    IF ns \in DOMAIN map
    THEN [map |-> [map EXCEPT ![ns] = 1], id |-> 1]
    ELSE [map |-> map @@ (ns :> 0), id |-> 0]

\* Context::get_next_policy_id
get_next_policy_id(map, ns) ==
    IF ns \in DOMAIN map
    THEN [map |-> [map EXCEPT ![ns] = @ + 1], id |-> map[ns] + 1]
    ELSE [map |-> map @@ (ns :> 0), id |-> 0]

\* Context::get_next_policyset_id
get_next_policyset_id(map, ns) ==
    IF ns \in DOMAIN map
    THEN [map |-> [map EXCEPT ![ns] = @ + 1], id |-> map[ns] + 1]
    ELSE [map |-> map @@ (ns :> 0), id |-> 0]

\* a variant that hands out the value drawn last once more
get_next_rule_id_Same(map, ns) ==
    IF ns \in DOMAIN map
    THEN [map |-> map, id |-> map[ns]]
    ELSE [map |-> map @@ (ns :> 0), id |-> 0]

\* Context::get_next_rule_id
get_next_rule_id(map, ns) ==
    IF ns \in DOMAIN map
    THEN [map |-> [map EXCEPT ![ns] = @ + 1], id |-> map[ns] + 1]
    ELSE [map |-> map @@ (ns :> 0), id |-> 0]

-----------------------------------------------------------------------------
(* finalize_id *)

\* What a conversion reads and writes besides the resolvers: the NameSlot
\* heap, the counters, a panic message ("" when none), and a record of the
\* decondition calls made (declog).
ConvState == [slots |-> slots, policy_id_mapping |-> policy_id_mapping,
              policyset_id_mapping |-> policyset_id_mapping,
              rule_id_mapping |-> rule_id_mapping, panic |-> "", declog |-> <<>>]

\* a variant of the loop that draws two values for every name it proposes
RECURSIVE policy_draw_Twice(_, _)
policy_draw_Twice(st, p) ==
    With(get_next_policy_id(st.policy_id_mapping, Join(p.ns, ".")), LAMBDA skipped :
    With(get_next_policy_id(skipped.map, Join(p.ns, ".")), LAMBDA n :
      LET proposed_name == "policy_" \o ToString(n.id)
          no_conflict == ~lookup_policy(proposed_name, p.ns).ok
      IN  With([st EXCEPT !.policy_id_mapping = n.map], LAMBDA st1 :
            IF no_conflict
            THEN [st1 EXCEPT !.slots[Last(p.policy_ns)] = Some(proposed_name)]
            ELSE policy_draw_Twice(st1, p))))

\* the loop of Policy::finalize_id
RECURSIVE policy_draw(_, _)
policy_draw(st, p) ==
    With(get_next_policy_id(st.policy_id_mapping, Join(p.ns, ".")), LAMBDA n :
      LET proposed_name == "policy_" \o ToString(n.id)
          no_conflict == ~lookup_policy(proposed_name, p.ns).ok
      IN  With([st EXCEPT !.policy_id_mapping = n.map], LAMBDA st1 :
            IF no_conflict
            THEN [st1 EXCEPT !.slots[Last(p.policy_ns)] = Some(proposed_name)]
            ELSE policy_draw(st1, p)))

\* a variant that draws a name whether or not the slot is filled
policy_finalize_id_Always(st, p) ==
    LET lastopt == last_elem(p.policy_ns)
    IN  IF IsSome(lastopt)
        THEN policy_draw(st, p)
        ELSE [st EXCEPT !.panic = "policy with empty policy namespace"]

\* Policy::finalize_id
policy_finalize_id(st, p) ==
    LET lastopt == last_elem(p.policy_ns)
    IN  IF IsSome(lastopt)
        THEN IF IsNone(st.slots[Unwrap(lastopt)]) THEN policy_draw(st, p) ELSE st
        ELSE [st EXCEPT !.panic = "policy with empty policy namespace"]

\* the loop of PolicySet::finalize_id
RECURSIVE policyset_draw(_, _)
policyset_draw(st, p) ==
    With(get_next_policyset_id(st.policyset_id_mapping, Join(p.ns, ".")), LAMBDA n :
      LET proposed_name == "policyset_" \o ToString(n.id)
          no_conflict == ~lookup_policy(proposed_name, p.ns).ok
      IN  With([st EXCEPT !.policyset_id_mapping = n.map], LAMBDA st1 :
            IF no_conflict
            THEN [st1 EXCEPT !.slots[Last(p.policy_ns)] = Some(proposed_name)]
            ELSE policyset_draw(st1, p)))

\* PolicySet::finalize_id
policyset_finalize_id(st, p) ==
    LET lastopt == last_elem(p.policy_ns)
    IN  IF IsSome(lastopt)
        THEN IF IsNone(st.slots[Unwrap(lastopt)]) THEN policyset_draw(st, p) ELSE st
        ELSE [st EXCEPT !.panic = "policyset namespace was empty"]

-----------------------------------------------------------------------------
(* Deconditioning *)

\* Policy::insert_ns_entry
policy_insert_ns_entry(p, name, idx) ==
    [p EXCEPT !.policy_ns = push_name_at_index(@, name, idx)]

\* PolicySet::insert_ns_entry
RECURSIVE policyset_insert_ns_entry(_, _, _)
policyset_insert_ns_entry(p, name, idx) ==
    [p EXCEPT !.policy_ns = push_name_at_index(@, name, idx),
              !.policies = [k \in 1..Len(@) |->
                              IF @[k].kind = "Policy"
                              THEN policy_insert_ns_entry(@[k], name, idx)
                              ELSE policyset_insert_ns_entry(@[k], name, idx)]]

\* the outcome of a decondition call, entered in the record of calls
Deconditioned(st, sl, inp, res) ==
    [st |-> [st EXCEPT !.slots = sl,
                       !.declog = Append(@, [inp |-> inp, res |-> res, slots |-> sl])],
     res |-> res]

\* the synthetic guard: a Policy "cond" holding one Permit rule with the
\* original's condition
CondPolicy(self, cond_policy_ns) ==
    LET condrule == [id |-> None, ns |-> self.ns, policy_ns |-> cond_policy_ns,
                     effect |-> "Permit", target |-> None,
                     condition |-> self.condition]
    IN  [kind |-> "Policy", id |-> PolicyName("cond"), ns |-> self.ns,
         policy_ns |-> cond_policy_ns, description |-> None, target |-> None,
         condition |-> None, apply |-> PROTECTED_NS \o ".permitOverrides",
         src_loc |-> self.src_loc,
         rules |-> <<condrule>>, policies |-> <<>>]

\* a variant that gives the wrapping PolicySet no id and no description
Container_Unnamed(self) ==
    [kind |-> "PolicySet", id |-> PolicyNoName, ns |-> self.ns,
     policy_ns |-> self.policy_ns, description |-> None,
     target |-> None, condition |-> None,
     apply |-> PROTECTED_NS \o ".onPermitApplySecond", src_loc |-> self.src_loc,
     rules |-> <<>>, policies |-> <<>>]

\* the wrapping PolicySet, still without children
Container(self) ==
    [kind |-> "PolicySet", id |-> self.id, ns |-> self.ns,
     policy_ns |-> self.policy_ns, description |-> self.description,
     target |-> None, condition |-> None,
     apply |-> PROTECTED_NS \o ".onPermitApplySecond", src_loc |-> self.src_loc,
     rules |-> <<>>, policies |-> <<>>]

\* a variant that places the renamed original before the guard
policy_decondition_OrigFirst(st, self) ==
    IF IsNone(self.condition)
    THEN [st |-> st, res |-> Err("PolicyNoCondition")]
    ELSE LET condslot == Len(st.slots) + 1
             origslot == Len(st.slots) + 2
             sl == st.slots \o <<Some("cond"), Some("orig")>>
             original == [self EXCEPT !.id = PolicyName("orig"),
                                      !.policy_ns = Append(self.policy_ns, origslot),
                                      !.description = None,
                                      !.condition = None]
             condpolicy == CondPolicy(self, Append(self.policy_ns, condslot))
             container == [Container(self) EXCEPT !.policies = <<original, condpolicy>>]
         IN  Deconditioned(st, sl, self, Ok(container))

\* a variant that wraps a Policy whether or not it has a condition
policy_decondition_NoCheck(st, self) ==
    LET condslot == Len(st.slots) + 1
        origslot == Len(st.slots) + 2
        sl == st.slots \o <<Some("cond"), Some("orig")>>
        original == [self EXCEPT !.id = PolicyName("orig"),
                                 !.policy_ns = Append(self.policy_ns, origslot),
                                 !.description = None,
                                 !.condition = None]
        condpolicy == CondPolicy(self, Append(self.policy_ns, condslot))
        container == [Container(self) EXCEPT !.policies = <<condpolicy, original>>]
    IN  Deconditioned(st, sl, self, Ok(container))

\* Policy::decondition
policy_decondition(st, self) ==
    IF IsNone(self.condition)
    THEN [st |-> st, res |-> Err("PolicyNoCondition")]
    ELSE LET condslot == Len(st.slots) + 1
             origslot == Len(st.slots) + 2
             sl == st.slots \o <<Some("cond"), Some("orig")>>
             original == [self EXCEPT !.id = PolicyName("orig"),
                                      !.policy_ns = Append(self.policy_ns, origslot),
                                      !.description = None,
                                      !.condition = None]
             condpolicy == CondPolicy(self, Append(self.policy_ns, condslot))
             container == [Container(self) EXCEPT !.policies = <<condpolicy, original>>]
         IN  Deconditioned(st, sl, self, Ok(container))

\* PolicySet::decondition
policyset_decondition(st, self) ==
    IF IsNone(self.condition)
    THEN [st |-> st, res |-> Err("PolicySetNoCondition")]
    ELSE LET condslot == Len(st.slots) + 1
             origslot == Len(st.slots) + 2
             orig_name == Len(st.slots) + 3
             sl == st.slots \o <<Some("cond"), Some("orig"), Some("orig")>>
             orig_policy_ns == Append(self.policy_ns, origslot)
             idx == Len(orig_policy_ns) - 1
             policies == [k \in 1..Len(self.policies) |->
                            IF self.policies[k].kind = "Policy"
                            THEN policy_insert_ns_entry(self.policies[k], orig_name, idx)
                            ELSE policyset_insert_ns_entry(self.policies[k], orig_name, idx)]
             original == [self EXCEPT !.id = PolicyName("orig"),
                                      !.policy_ns = orig_policy_ns,
                                      !.description = None,
                                      !.condition = None,
                                      !.policies = policies]
             condpolicy == CondPolicy(self, Append(self.policy_ns, condslot))
             container == [Container(self) EXCEPT !.policies = <<condpolicy, original>>]
         IN  Deconditioned(st, sl, self, Ok(container))

-----------------------------------------------------------------------------
(* Conversion to XACML structures *)

\* RuleDef::get_id: the identifier and the counters after drawing it
rule_get_id(st, r) ==
    LET ppath_res == build_path(st.slots, r.policy_ns, "/")
        pn == BaseNamespace \o Join(r.ns, "/")
              \o (IF Unwrap(ppath_res) # "" THEN "/" \o Unwrap(ppath_res) ELSE "")
        n == get_next_rule_id(st.rule_id_mapping, Join(r.ns, "."))
    IN  IF IsSome(ppath_res)
        THEN IF IsNone(r.id)
             THEN [st |-> [st EXCEPT !.rule_id_mapping = n.map],
                   id |-> pn \o "#rule_" \o ToString(n.id)]
             ELSE [st |-> st, id |-> pn \o "/" \o Unwrap(r.id)]
        ELSE [st |-> [st EXCEPT !.panic = "Trying to name a rule that has no policy_ns set"],
              id |-> ""]

\* TryFrom<&RuleDef> for XRule; targets and conditions are carried over as
\* the texts they were written as
XRule_try_from(st, r) ==
    With(rule_get_id(st, r), LAMBDA named :
      [st |-> named.st,
       res |-> IF named.st.panic # "" THEN Err("panic")
               ELSE Ok([id |-> named.id, effect |-> r.effect,
                        target |-> r.target, condition |-> r.condition])])

\* the rules of a policy, converted in order
RECURSIVE XRules(_, _)
XRules(st, rules) ==
    IF Len(rules) = 0 THEN [st |-> st, res |-> Ok(<<>>)]
    ELSE With(XRule_try_from(st, rules[1]), LAMBDA first :
           IF ~first.res.ok THEN first
           ELSE With(XRules(first.st, Tail(rules)), LAMBDA rest :
                  IF ~rest.res.ok THEN rest
                  ELSE [st |-> rest.st, res |-> Ok(<<first.res.val>> \o rest.res.val)]))

\* a variant that reads the identifier without finalizing it first
XPolicy_try_from_Unfinalized(st, p) ==
    IF IsSome(p.condition)
    THEN [st |-> st, res |-> Err("PolicyNoCondition")]
    ELSE With(lookup_rule_combinator(p.apply, p.ns, p.src_loc), LAMBDA combining_alg :
           IF ~combining_alg.ok THEN [st |-> st, res |-> combining_alg]
           ELSE [st |-> st,
                 res |-> Ok([kind |-> "XPolicy",
                             id |-> get_id(st.slots, p),
                             filename |-> get_filename(st.slots, p),
                             combining_alg |-> combining_alg.val.uri,
                             description |-> p.description,
                             target |-> p.target,
                             rules |-> [k \in 1..Len(p.rules) |->
                                          [id |-> "", effect |-> p.rules[k].effect,
                                           target |-> p.rules[k].target,
                                           condition |-> p.rules[k].condition]],
                             children |-> <<>>])])

\* TryFrom<&Policy> for XPolicy
XPolicy_try_from(st, p) ==
    IF IsSome(p.condition)
    THEN [st |-> st, res |-> Err("PolicyNoCondition")]
    ELSE With(policy_finalize_id(st, p), LAMBDA st1 :
         With(lookup_rule_combinator(p.apply, p.ns, p.src_loc), LAMBDA combining_alg :
           IF st1.panic # "" THEN [st |-> st1, res |-> Err("panic")]
           ELSE IF ~combining_alg.ok THEN [st |-> st1, res |-> combining_alg]
           ELSE With(XRules(st1, p.rules), LAMBDA rules :
                  IF ~rules.res.ok THEN rules
                  ELSE [st |-> rules.st,
                        res |-> Ok([kind |-> "XPolicy",
                                    id |-> get_id(rules.st.slots, p),
                                    filename |-> get_filename(rules.st.slots, p),
                                    combining_alg |-> combining_alg.val.uri,
                                    description |-> p.description,
                                    target |-> p.target,
                                    rules |-> rules.res.val,
                                    children |-> <<>>])])))

\* a variant that emits a conditioned Policy as it stands, less its condition
XPolicyEntry_try_from_AsPolicy(st, p) ==
    XPolicy_try_from(st, [p EXCEPT !.condition = None])

RECURSIVE XPolicySet_try_from(_, _), XPolicySet_try_from_Policy(_, _),
          XPolicyEntry_try_from(_, _), XChildren(_, _)

\* TryFrom<&PolicySet> for XPolicySet
XPolicySet_try_from(st, p) ==
    IF IsSome(p.condition)
    THEN With(policyset_decondition(st, p), LAMBDA pd :
           IF ~pd.res.ok THEN pd ELSE XPolicySet_try_from(pd.st, pd.res.val))
    ELSE With(policyset_finalize_id(st, p), LAMBDA st1 :
         With(lookup_policy_combinator(p.apply, p.ns), LAMBDA combining_alg :
           IF st1.panic # "" THEN [st |-> st1, res |-> Err("panic")]
           ELSE IF ~combining_alg.ok THEN [st |-> st1, res |-> combining_alg]
           ELSE With(XChildren(st1, p.policies), LAMBDA children :
                  IF ~children.res.ok THEN children
                  ELSE [st |-> children.st,
                        res |-> Ok([kind |-> "XPolicySet",
                                    id |-> get_id(children.st.slots, p),
                                    filename |-> get_filename(children.st.slots, p),
                                    combining_alg |-> combining_alg.val.uri,
                                    description |-> p.description,
                                    target |-> p.target,
                                    rules |-> <<>>,
                                    children |-> children.res.val])])))

\* TryFrom<&Policy> for XPolicySet
XPolicySet_try_from_Policy(st, p) ==
    IF IsNone(p.condition)
    THEN [st |-> st, res |-> Err("PolicyHasCondition")]
    ELSE With(policy_decondition(st, p), LAMBDA policyset :
           IF ~policyset.res.ok THEN policyset
           ELSE XPolicySet_try_from(policyset.st, policyset.res.val))

\* TryFrom<&Policy> for XPolicyEntry
XPolicyEntry_try_from(st, p) ==
    IF IsNone(p.condition)
    THEN XPolicy_try_from(st, p)
    ELSE XPolicySet_try_from_Policy(st, p)

\* the loop of XPolicySet::try_from over the child policy entries
XChildren(st, entries) ==
    IF Len(entries) = 0 THEN [st |-> st, res |-> Ok(<<>>)]
    ELSE With(IF entries[1].kind = "PolicySet"
              THEN XPolicySet_try_from(st, entries[1])
              ELSE XPolicyEntry_try_from(st, entries[1]), LAMBDA first :
           IF ~first.res.ok THEN first
           ELSE With(XChildren(first.st, Tail(entries)), LAMBDA rest :
                  IF ~rest.res.ok THEN rest
                  ELSE [st |-> rest.st, res |-> Ok(<<first.res.val>> \o rest.res.val)]))

-----------------------------------------------------------------------------
(* alfa_compile *)

\* the top-level elements already converted, by position
Converted == IF lastConv.called THEN lastConv.done ELSE {}

\* alfa_compile takes the top-level policysets in source order, then the
\* top-level policies in source order
Pending(kind) == { i \in 1..Len(top) : top[i].kind = kind /\ i \notin Converted }

NextToConvert ==
    IF Pending("PolicySet") # {}
    THEN { CHOOSE i \in Pending("PolicySet") : \A j \in Pending("PolicySet") : i <= j }
    ELSE IF Pending("Policy") # {}
    THEN { CHOOSE i \in Pending("Policy") : \A j \in Pending("Policy") : i <= j }
    ELSE {}

\* alfa_compile converts one top-level element; the structures built by
\* deconditioning are dropped with their NameSlots once it is converted
Convert(i) ==
    /\ phase = "convert"
    /\ i \in NextToConvert
    /\ \E out \in {IF top[i].kind = "PolicySet"
                   THEN XPolicySet_try_from(ConvState, top[i])
                   ELSE XPolicyEntry_try_from(ConvState, top[i])} :
           /\ slots' = SubSeq(out.st.slots, 1, Len(slots))
           /\ policy_id_mapping' = out.st.policy_id_mapping
           /\ policyset_id_mapping' = out.st.policyset_id_mapping
           /\ rule_id_mapping' = out.st.rule_id_mapping
           /\ lastConv' = [called |-> TRUE, idx |-> i, res |-> out.res,
                           declog |-> out.st.declog, done |-> Converted \cup {i}]
           /\ phase' = IF out.res.ok THEN "convert" ELSE "failed"
    /\ UNCHANGED <<imports, lookupVars, policy_resolver, policyset_resolver,
                   used_uris, top, regCall>>

Init ==
    /\ InitContext
    /\ phase = "build"
    /\ rule_resolver = EmptyMap
    /\ lookupCall = NoCall
    /\ slots = <<>>
    /\ top = <<>>
    /\ regCall = NoCall
    /\ lastConv = NoCall
    /\ exprCall = NoCall
    /\ decCall = NoCall

Next ==
    \/ \E ns \in PolicyNamespaces, d \in Decls[1] : AddPolicy(ns, d)
    \/ \E ns \in PolicyNamespaces, n \in 1..(MaxElems - Len(slots)) :
          \E d \in Decls[n] : AddPolicySet(ns, d)
    \/ StartConversion
    \/ \E i \in 1..Len(top) : Convert(i)

\* policies and policysets: declaration, registration, conversion
Spec == Init /\ [][Next]_vars

\* one of the two conversions of a Policy, called once on a declared
\* top-level Policy whether or not it carries a condition
TryFromPolicy(i, into) ==
    /\ lastConv = NoCall
    /\ i \in 1..Len(top)
    /\ top[i].kind = "Policy"
    /\ \E out \in {IF into = "XPolicy"
                   THEN XPolicy_try_from(ConvState, top[i])
                   ELSE XPolicySet_try_from_Policy(ConvState, top[i])} :
           /\ slots' = SubSeq(out.st.slots, 1, Len(slots))
           /\ policy_id_mapping' = out.st.policy_id_mapping
           /\ policyset_id_mapping' = out.st.policyset_id_mapping
           /\ rule_id_mapping' = out.st.rule_id_mapping
           /\ lastConv' = [called |-> TRUE, idx |-> i, into |-> into, res |-> out.res,
                           declog |-> out.st.declog, done |-> Converted \cup {i}]
    /\ UNCHANGED <<phase, imports, lookupVars, policy_resolver, policyset_resolver,
                   used_uris, top, regCall>>

NextTryFrom ==
    \/ \E ns \in PolicyNamespaces, d \in Decls[1] : AddPolicy(ns, d)
    \/ \E ns \in PolicyNamespaces, n \in 1..(MaxElems - Len(slots)) :
          \E d \in Decls[n] : AddPolicySet(ns, d)
    \/ \E i \in 1..Len(top), into \in {"XPolicy", "XPolicySet"} : TryFromPolicy(i, into)

\* declaration, and the conversions of a Policy called on what is declared
SpecTryFrom == Init /\ [][NextTryFrom]_vars

\* Policy::decondition / PolicySet::decondition called on a declared top-level
\* element; the PolicySet returned owns the NameSlots made for it
Decondition(i) ==
    /\ i \in 1..Len(top)
    /\ \E out \in {IF top[i].kind = "PolicySet"
                   THEN policyset_decondition(ConvState, top[i])
                   ELSE policy_decondition(ConvState, top[i])} :
           decCall' = [called |-> TRUE, inp |-> top[i], before |-> ConvState,
                       after |-> out.st, res |-> out.res]
    /\ UNCHANGED <<phase, imports, rule_resolver, lookupCall, exprCall, policy_resolver,
                   policyset_resolver, used_uris, counterVars, slots, top,
                   regCall, lastConv>>

NextDecondition ==
    \/ \E ns \in PolicyNamespaces, d \in Decls[1] : AddPolicy(ns, d)
    \/ \E ns \in PolicyNamespaces, n \in 1..(MaxElems - Len(slots)) :
          \E d \in Decls[n] : AddPolicySet(ns, d)
    \/ \E i \in 1..Len(top) : Decondition(i)

\* declaration, and decondition called on what is declared
SpecDecondition == Init /\ [][NextDecondition]_vars

-----------------------------------------------------------------------------
(* Properties of naming, registration and conversion *)

\* an element and everything nested in it
RECURSIVE Elements(_)
Elements(e) ==
    {e} \cup UNION { Elements(e.policies[k]) : k \in 1..Len(e.policies) }

\* every Policy and PolicySet declared so far
AllElems == UNION { Elements(top[i]) : i \in 1..Len(top) }

\* the elements declared without a name whose own slot has been filled
Finalized ==
    { e \in AllElems : e.id.tag = "PolicyNoName" /\ IsSome(slots[Last(e.policy_ns)]) }

Registered == DOMAIN policy_resolver \cup DOMAIN policyset_resolver

\* C3: the name finalize_id generates for an anonymous Policy or PolicySet
\* never makes its fully-qualified name equal to the fully-qualified name of
\* a registered Policy or PolicySet.
C3_GeneratedNameIsFree ==
    \A e \in Finalized :
        LET path == build_path(slots, e.policy_ns, ".")
        IN  IsSome(path) => (Join(e.ns, ".") \o "." \o Unwrap(path)) \notin Registered

\* C4: anonymous Policies and PolicySets declared in the same namespace, at
\* top level or nested, never receive the same generated name, whatever the
\* order in which they are declared and finalized.
C4_DistinctGeneratedNames ==
    \A e1, e2 \in Finalized :
        (e1.ns = e2.ns /\ Last(e1.policy_ns) # Last(e2.policy_ns))
            => slots[Last(e1.policy_ns)] # slots[Last(e2.policy_ns)]

\* two anonymous policies of one namespace, one of them nested, both named
C4_Witness ==
    \E e1, e2 \in Finalized :
        /\ e1.ns = e2.ns
        /\ e1.kind = "Policy" /\ e2.kind = "Policy"
        /\ Len(e1.policy_ns) = 1 /\ Len(e2.policy_ns) = 2

\* the decondition calls of the last conversion
Deconditionings ==
    IF lastConv.called
    THEN { lastConv.declog[k] : k \in 1..Len(lastConv.declog) }
    ELSE {}

\* C5: deconditioning a Policy with condition C, target T and rules R gives a
\* PolicySet with exactly two children: first a Policy "cond" that uses
\* permit-overrides and holds one Permit rule with condition C and no
\* target, then the original renamed "orig" with target T, rules R and no
\* condition.
C5_PolicyDeconditionShape ==
    \A d \in Deconditionings :
        (d.inp.kind = "Policy" /\ d.res.ok) =>
            LET c == d.res.val
                cond == c.policies[1]
                orig == c.policies[2]
            IN  /\ c.kind = "PolicySet"
                /\ Len(c.policies) = 2
                /\ cond.kind = "Policy"
                /\ cond.id = PolicyName("cond")
                /\ lookup_rule_combinator(cond.apply, cond.ns, cond.src_loc)
                     = Ok([uri |-> RulePermitOverridesUri])
                /\ Len(cond.rules) = 1
                /\ cond.rules[1].effect = "Permit"
                /\ cond.rules[1].condition = d.inp.condition
                /\ cond.rules[1].target = None
                /\ cond.condition = None
                /\ orig.kind = "Policy"
                /\ orig.id = PolicyName("orig")
                /\ orig.target = d.inp.target
                /\ orig.rules = d.inp.rules
                /\ orig.condition = None

\* a Policy with a condition and a target has been deconditioned
C5_Witness ==
    \E d \in Deconditionings :
        /\ d.inp.kind = "Policy"
        /\ d.res.ok
        /\ IsSome(d.inp.condition)
        /\ IsSome(d.inp.target)

\* x is what the conversion emits for e: for an element with a condition,
\* the PolicySet of deconditioning (guard first, then what is emitted for
\* the element without its condition); for any other, an element of its
\* own kind with its target and as many rules and children
RECURSIVE Emitted(_, _)
Emitted(e, x) ==
    IF IsSome(e.condition)
    THEN /\ x.kind = "XPolicySet"
         /\ x.combining_alg = OnPermitApplySecondUri
         /\ x.target = None
         /\ Len(x.children) = 2
         /\ x.children[1].kind = "XPolicy"
         /\ x.children[1].combining_alg = RulePermitOverridesUri
         /\ Len(x.children[1].rules) = 1
         /\ x.children[1].rules[1].effect = "Permit"
         /\ x.children[1].rules[1].condition = e.condition
         /\ Emitted([e EXCEPT !.condition = None], x.children[2])
    ELSE /\ x.kind = (IF e.kind = "Policy" THEN "XPolicy" ELSE "XPolicySet")
         /\ x.target = e.target
         /\ Len(x.rules) = Len(e.rules)
         /\ \A k \in 1..Len(x.rules) : x.rules[k].condition = e.rules[k].condition
         /\ Len(x.children) = Len(e.policies)
         /\ \A k \in 1..Len(e.policies) : Emitted(e.policies[k], x.children[k])

\* C6: an element that carries a condition, at top level or nested at any
\* depth, is emitted as the condition-free PolicySet of deconditioning and
\* never as itself; nested conditioned children are deconditioned in turn.
C6_ConditionedEmittedDeconditioned ==
    (lastConv.called /\ lastConv.res.ok)
        => Emitted(top[lastConv.idx], lastConv.res.val)

\* a conditioned PolicySet holding a conditioned Policy has been converted
C6_Witness ==
    /\ lastConv.called
    /\ lastConv.res.ok
    /\ top[lastConv.idx].kind = "PolicySet"
    /\ IsSome(top[lastConv.idx].condition)
    /\ \E k \in 1..Len(top[lastConv.idx].policies) :
          /\ top[lastConv.idx].policies[k].kind = "Policy"
          /\ IsSome(top[lastConv.idx].policies[k].condition)

\* C7: the PolicySet decondition returns has no condition, uses
\* on-permit-apply-second, and keeps the original's URI, name and
\* description, so that its identifier is the one the original had; neither
\* child carries the original's URI.
C7_WrapperKeepsIdentity ==
    \A d \in Deconditionings :
        d.res.ok =>
            LET c == d.res.val
            IN  /\ c.condition = None
                /\ lookup_policy_combinator(c.apply, c.ns)
                     = Ok([uri |-> OnPermitApplySecondUri])
                /\ c.id = d.inp.id
                /\ c.description = d.inp.description
                /\ is_resolvable(d.slots, d.inp.policy_ns)
                     => get_id(d.slots, c) = get_id(d.slots, d.inp)
                /\ \A k \in 1..Len(c.policies) :
                      /\ c.policies[k].id.tag # "PolicyNameAndId"
                      /\ d.inp.id.tag = "PolicyNameAndId"
                           => get_id(d.slots, c.policies[k]) # d.inp.id.uri

\* an element with an explicit URI and a description has been deconditioned
C7_Witness ==
    \E d \in Deconditionings :
        /\ d.res.ok
        /\ d.inp.id.tag = "PolicyNameAndId"
        /\ IsSome(d.inp.description)
        /\ get_id(d.slots, d.res.val) = d.inp.id.uri

\* C8: no fully-qualified name is carried by both a Policy and a PolicySet.
C8_NoSharedName ==
    \A e1, e2 \in AllElems :
        (e1.kind = "Policy" /\ e2.kind = "PolicySet")
            => LET f1 == fully_qualified_name(slots, e1)
                   f2 == fully_qualified_name(slots, e2)
               IN  (IsSome(f1) /\ IsSome(f2)) => f1 # f2

\* the Resolver::register invocations of the last declaration
Invocations ==
    IF regCall.called THEN { regCall.log[k] : k \in 1..Len(regCall.log) } ELSE {}

\* every binding of a resolver is the same in the next state
Permanent(elements, after) ==
    \A n \in DOMAIN elements : n \in DOMAIN after /\ after[n] = elements[n]

\* C9: a registered fully-qualified name stays bound to the same entity for
\* the rest of the compilation, and a later register under that name fails
\* with DuplicateSymbol and leaves the binding as it was.
C9_BindingsPermanent ==
    /\ [](\A v \in Invocations :
            /\ v.kept
            /\ v.bound => v.res = Err("DuplicateSymbol"))
    /\ [][/\ Permanent(policy_resolver, policy_resolver')
          /\ Permanent(policyset_resolver, policyset_resolver')
          /\ Permanent(rule_resolver, rule_resolver')]_vars

\* register has been invoked for a name that was bound
C9_Witness ==
    \E v \in Invocations : v.bound /\ v.res = Err("DuplicateSymbol")

\* the register_policy and register_policyset calls of the last declaration
Calls ==
    IF regCall.called THEN { regCall.calls[k] : k \in 1..Len(regCall.calls) } ELSE {}

\* C10 (as stated): registering a Policy or PolicySet whose explicit URI has
\* been supplied by an element registered before it fails with DuplicateURI.
C10_DuplicateUriError ==
    \A c \in Calls : c.uri_seen => c.res = Err("DuplicateURI")

\* C10 (amended): registering a Policy or PolicySet whose explicit URI has
\* been supplied by an element registered before it fails; the error is
\* DuplicateURI unless the registration of a nested child has failed first.
C10_DuplicateUriFails ==
    \A c \in Calls :
        c.uri_seen =>
            /\ ~c.res.ok
            /\ c.kids_ok => c.res = Err("DuplicateURI")

\* a URI supplied in one namespace has been refused in another
C10_Witness ==
    \E c \in Calls :
        /\ c.uri_seen
        /\ c.res = Err("DuplicateURI")
        /\ \E i \in 1..(Len(top) - 1) :
              \E e \in Elements(top[i]) :
                 /\ e.id.tag = "PolicyNameAndId"
                 /\ e.id.uri = c.id.uri
                 /\ e.ns # c.ns

\* the compilation has converted every top-level element without error
Succeeded == phase = "convert" /\ Len(top) > 0 /\ NextToConvert = {}

\* C11: in a compilation that succeeds, no identifier generated for an
\* anonymous Policy or PolicySet equals the URI an author supplied for
\* another Policy or PolicySet.
C11_GeneratedIdNotAuthorUri ==
    Succeeded =>
        \A e \in AllElems, f \in AllElems :
            (e.id.tag = "PolicyNoName" /\ f.id.tag = "PolicyNameAndId")
                => get_id(slots, e) # f.id.uri

\* C12: a lookup for which none of the six rules yields a match fails with
\* SymbolNotFound, and the error carries the location of the reference that
\* was being resolved.
C12_NoMatchSymbolNotFound ==
    (lookupCall.called /\ FirstMatchingRule = 0) =>
        /\ ~lookupCall.res.ok
        /\ lookupCall.res.err.name = "SymbolNotFound"
        /\ lookupCall.res.err.src_loc = lookupCall.src_loc

\* the import statements registered at a namespace, as a set
ImportsAt(n) ==
    IF n \in DOMAIN imports THEN { imports[n][k] : k \in 1..Len(imports[n]) } ELSE {}

\* C13: the imports in effect for a lookup from namespace N are those
\* registered at N together with those of the default namespace: every
\* default import is among them whatever N imports, and a name reachable
\* only through a default import is still found when N has imports.
C13_DefaultImportsAlwaysActive ==
    lookupCall.called =>
        LET active == IF IsSome(lookupCall.imports)
                      THEN { Unwrap(lookupCall.imports)[k] :
                               k \in 1..Len(Unwrap(lookupCall.imports)) }
                      ELSE {}
        IN  /\ active = ImportsAt(Join(lookupCall.source_ns, ".")) \cup ImportsAt(SYSTEM_NS)
            /\ StandardImport \in active
            /\ (lookupCall.which = "PolicyCombinator"
                  /\ lookupCall.symbol = "firstApplicable")
                 => lookupCall.res
                      = Ok(policycombinator_resolver[SYSTEM_NS \o ".firstApplicable"])

\* a standard combining algorithm was resolved from a namespace that has
\* import statements of its own
C13_Witness ==
    /\ lookupCall.called
    /\ lookupCall.which = "PolicyCombinator"
    /\ lookupCall.symbol = "firstApplicable"
    /\ ImportsAt(Join(lookupCall.source_ns, ".")) # {}
    /\ lookupCall.res.ok

-----------------------------------------------------------------------------
(* Types, operators, attributes and functions known to the Context *)

BOOLEAN_URI == "http://www.w3.org/2001/XMLSchema#boolean"
STRING_URI == "http://www.w3.org/2001/XMLSchema#string"
INTEGER_URI == "http://www.w3.org/2001/XMLSchema#integer"

\* a ParseError variant that carries no data
ParseError(name) == Err([name |-> name])
\* panic!, todo!: the compilation is aborted
Panic(msg) == Err([name |-> "panic", msg |-> msg])

\* the standard types that the modelled sources use
typedef_resolver ==
    (SYSTEM_NS \o ".string" :> [uri |-> STRING_URI])
    @@ (SYSTEM_NS \o ".boolean" :> [uri |-> BOOLEAN_URI])
    @@ (SYSTEM_NS \o ".integer" :> [uri |-> INTEGER_URI])

\* the standard infix operators that the modelled sources use, and the
\* operator that namespace A declares:
\*   infix allowbags (++) = { "urn:example:concat" : string string -> string }
infix_resolver ==
    LET sig(u, a, b, o) == [uri |-> u, first_arg |-> a, second_arg |-> b, output |-> o]
        fn(n) == "urn:oasis:names:tc:xacml:1.0:function:" \o n
        op(o, bags, comm, sigs, ns, inv) ==
            [operator |-> o, allow_bags |-> bags, commutative |-> comm,
             signatures |-> sigs, ns |-> ns, inverse |-> inv]
    IN  (SYSTEM_NS \o ".==" :> op("==", TRUE, TRUE,
            << sig(fn("string-equal"), "string", "string", "boolean"),
               sig(fn("boolean-equal"), "boolean", "boolean", "boolean"),
               sig(fn("integer-equal"), "integer", "integer", "boolean") >>,
            <<SYSTEM_NS>>, None))
        @@ (SYSTEM_NS \o ".<" :> op("<", TRUE, FALSE,
            << sig(fn("integer-less-than"), "integer", "integer", "boolean"),
               sig(fn("string-less-than"), "string", "string", "boolean") >>,
            <<SYSTEM_NS>>, Some(">")))
        @@ (SYSTEM_NS \o ".>" :> op(">", TRUE, FALSE,
            << sig(fn("integer-greater-than"), "integer", "integer", "boolean"),
               sig(fn("string-greater-than"), "string", "string", "boolean") >>,
            <<SYSTEM_NS>>, Some("<")))
        @@ (SYSTEM_NS \o ".&&" :> op("&&", FALSE, TRUE,
            << sig(fn("and"), "boolean", "boolean", "boolean") >>,
            <<SYSTEM_NS>>, None))
        @@ (SYSTEM_NS \o ".-" :> op("-", FALSE, FALSE,
            << sig(fn("integer-subtract"), "integer", "integer", "integer") >>,
            <<SYSTEM_NS>>, None))
        @@ ("A.++" :> op("++", TRUE, FALSE,
            << sig("urn:example:concat", "string", "string", "string") >>,
            <<"A">>, None))

\* the standard attribute subjectId, and the attribute that namespace A declares:
\*   attribute age { id = "urn:example:age" type = integer category = subjectCat }
attribute_resolver ==
    (SYSTEM_NS \o ".subjectId" :>
        [id |-> "subjectId", typedef |-> "string", category |-> "subjectCat",
         uri |-> "urn:oasis:names:tc:xacml:1.0:subject:subject-id", ns |-> <<SYSTEM_NS>>])
    @@ ("A.age" :>
        [id |-> "age", typedef |-> "integer", category |-> "subjectCat",
         uri |-> "urn:example:age", ns |-> <<"A">>])

category_resolver ==
    (SYSTEM_NS \o ".subjectCat" :>
        [uri |-> "urn:oasis:names:tc:xacml:1.0:subject-category:access-subject"])

\* the standard functions that the modelled sources use
function_resolver ==
    LET f(u, tag, t) == [function_uri |-> u, ns |-> <<SYSTEM_NS>>,
                         output_arg |-> [tag |-> tag, name |-> t]]
    IN  (SYSTEM_NS \o ".not" :>
            f("urn:oasis:names:tc:xacml:1.0:function:not", "Atomic", "boolean"))
        @@ (SYSTEM_NS \o ".stringOneAndOnly" :>
            f("urn:oasis:names:tc:xacml:1.0:function:string-one-and-only", "Atomic", "string"))
        @@ (SYSTEM_NS \o ".stringBag" :>
            f("urn:oasis:names:tc:xacml:1.0:function:string-bag", "AtomicBag", "string"))
        @@ (SYSTEM_NS \o ".map" :>
            f("urn:oasis:names:tc:xacml:3.0:function:map", "AnyAtomicBag", ""))

\* Context::lookup_type, lookup_infix, lookup_attribute, lookup_category and
\* lookup_function: the Resolver of the kind is asked, with no location
ctx_lookup(type_name, elements, symbol, source_ns) ==
    lookup(type_name, elements, symbol, source_ns, SrcLoc_default,
           get_imports(imports, source_ns))

\* Context::lookup_infix_inverse
lookup_infix_inverse(symbol, source_ns) ==
    With(ctx_lookup("Infix", infix_resolver, symbol, source_ns), LAMBDA i :
      IF ~i.ok THEN i
      ELSE IF IsSome(i.val.inverse)
           THEN ctx_lookup("Infix", infix_resolver, Unwrap(i.val.inverse), source_ns)
           ELSE ParseError("InverseInfixNotFound"))

\* Context::constant_to_typedliteral
constant_to_typedliteral(c, source_ns) ==
    CASE c.kind = "String" -> Ok([type_uri |-> STRING_URI, value |-> c.v])
      [] c.kind = "Integer" -> Ok([type_uri |-> INTEGER_URI, value |-> c.v])
      [] c.kind = "Boolean" -> Ok([type_uri |-> BOOLEAN_URI, value |-> c.v])
      [] c.kind = "Custom" ->
           With(ctx_lookup("TypeDef", typedef_resolver, c.type, source_ns), LAMBDA t :
             IF t.ok THEN Ok([type_uri |-> t.val.uri, value |-> c.v]) ELSE t)
      [] OTHER -> ParseError("AstConvertError")

-----------------------------------------------------------------------------
(* Targets *)

\* process_target_match that never marks a match as reversed
process_target_match_NoReverse(r, tokens) ==
    IF r = "target_match_func"
    THEN Ok([tag |-> "MatchFunc", function_id |-> tokens[1], literal |-> tokens[2],
             attribute |-> tokens[3]])
    ELSE IF r = "target_match_rev_op"
    THEN Ok([tag |-> "MatchOp", attribute |-> tokens[1], operator |-> tokens[2],
             literal |-> tokens[3], reversed |-> FALSE])
    ELSE Ok([tag |-> "MatchOp", attribute |-> tokens[3], operator |-> tokens[2],
             literal |-> tokens[1], reversed |-> FALSE])

\* process_target_match: the Match built from the tokens of a target match,
\* taken in the order they are written; the grammar rule says which form it is
process_target_match(r, tokens) ==
    IF r = "target_match_rev_op"
    THEN Ok([tag |-> "MatchOp", attribute |-> tokens[1], operator |-> tokens[2],
             literal |-> tokens[3], reversed |-> TRUE])
    ELSE IF r = "target_match_op"
    THEN Ok([tag |-> "MatchOp", attribute |-> tokens[3], operator |-> tokens[2],
             literal |-> tokens[1], reversed |-> FALSE])
    ELSE IF r = "target_match_func"
    THEN Ok([tag |-> "MatchFunc", function_id |-> tokens[1], literal |-> tokens[2],
             attribute |-> tokens[3]])
    ELSE ParseError("AstConvertError")

\* match_to_xmatch
match_to_xmatch(m, source_ns) ==
    LET XMatch(matchid, tl, attr, cat, attr_type) ==
            Ok([matchid |-> matchid, value |-> tl.value, value_type |-> tl.type_uri,
                designator_id |-> attr.uri, designator_category |-> cat.uri,
                designator_type |-> attr_type])
        tl == constant_to_typedliteral(m.literal, source_ns)
        attr == ctx_lookup("Attribute", attribute_resolver, Join(m.attribute, "."), source_ns)
        cat == ctx_lookup("Category", category_resolver, attr.val.category, attr.val.ns)
        attr_type == ctx_lookup("TypeDef", typedef_resolver, attr.val.typedef, attr.val.ns)
    IN  IF m.tag = "MatchFunc"
        THEN LET f == ctx_lookup("Function", function_resolver,
                                 Join(m.function_id, "."), source_ns)
             IN  IF ~f.ok THEN f
                 ELSE IF ~tl.ok THEN tl
                 ELSE IF ~attr.ok THEN attr
                 ELSE IF ~cat.ok THEN cat
                 ELSE IF ~attr_type.ok THEN attr_type
                 ELSE XMatch(f.val.function_uri, tl.val, attr.val, cat.val, attr_type.val.uri)
        ELSE LET source_infix == ctx_lookup("Infix", infix_resolver, m.operator, source_ns)
                 infix == IF ~m.reversed THEN source_infix
                          ELSE IF source_infix.val.commutative THEN source_infix
                          ELSE IF IsSome(source_infix.val.inverse)
                               THEN lookup_infix_inverse(m.operator, source_ns)
                          ELSE ParseError("ReversedInfixArgsNotCommutativeError")
                 RECURSIVE signatures(_)
                 signatures(k) ==
                     IF k > Len(infix.val.signatures) THEN ParseError("AstConvertError")
                     ELSE LET s == infix.val.signatures[k]
                              first_type == ctx_lookup("TypeDef", typedef_resolver,
                                                       s.first_arg, infix.val.ns)
                              second_type == ctx_lookup("TypeDef", typedef_resolver,
                                                        s.second_arg, infix.val.ns)
                              output_type == ctx_lookup("TypeDef", typedef_resolver,
                                                        s.output, infix.val.ns)
                          IN  IF ~first_type.ok THEN first_type
                              ELSE IF ~second_type.ok THEN second_type
                              ELSE IF ~output_type.ok THEN output_type
                              ELSE IF /\ first_type.val.uri = tl.val.type_uri
                                      /\ second_type.val.uri = attr_type.val.uri
                                      /\ output_type.val.uri = BOOLEAN_URI
                                   THEN XMatch(s.uri, tl.val, attr.val, cat.val,
                                               attr_type.val.uri)
                              ELSE signatures(k + 1)
             IN  IF ~tl.ok THEN tl
                 ELSE IF ~source_infix.ok THEN source_infix
                 ELSE IF ~infix.ok THEN infix
                 ELSE IF ~attr.ok THEN attr
                 ELSE IF ~attr_type.ok THEN attr_type
                 ELSE IF ~cat.ok THEN cat
                 ELSE signatures(1)

\* literals as written in the modelled sources: "5", 5, true, "5":string
Constants ==
    { [kind |-> "String", v |-> "5", type |-> ""],
      [kind |-> "Integer", v |-> "5", type |-> ""],
      [kind |-> "Boolean", v |-> "true", type |-> ""],
      [kind |-> "Custom", v |-> "5", type |-> "string"] }
\* operators, attributes and functions as written, defined or not
OperatorNames == {"==", "<", ">", "&&", "-", "++", "~"}
AttributeNames == {<<"subjectId">>, <<"age">>, <<"nosuch">>}
FunctionNames == {<<"not">>, <<"stringOneAndOnly">>, <<"stringBag">>, <<"map">>}

\* the target matches of the modelled sources, by grammar rule
TargetMatches ==
    { [r |-> "target_match_op", tokens |-> <<c, o, a>>] :
        c \in Constants, o \in OperatorNames, a \in AttributeNames }
    \cup { [r |-> "target_match_rev_op", tokens |-> <<a, o, c>>] :
             c \in Constants, o \in OperatorNames, a \in AttributeNames }
    \cup { [r |-> "target_match_func", tokens |-> <<f, c, a>>] :
             f \in FunctionNames, c \in Constants, a \in AttributeNames }

\* an expression of the source, parsed and waiting to be converted
Written(what, w) == [called |-> FALSE, what |-> what, written |-> w]

\* XTarget::try_from: a target match written in namespace A is converted
CompileMatch(w) ==
    /\ phase = "convert"
    /\ exprCall = Written("match", w)
    /\ \E m \in {process_target_match(w.r, w.tokens)} :
          exprCall' = [called |-> TRUE, what |-> "match", written |-> w,
                       res |-> IF m.ok THEN match_to_xmatch(m.val, <<"A">>) ELSE m]
    /\ UNCHANGED <<phase, imports, rule_resolver, lookupCall, policy_resolver,
                   policyset_resolver, used_uris, counterVars, slots, top,
                   regCall, lastConv, decCall>>

-----------------------------------------------------------------------------
(* Conditions *)

\* FunctionTypeResolved::is_bag
is_bag(t) == t.tag \in {"AtomicBag", "AnyAtomicBag"}

\* resolve_literal_types, as used by type_for_expr (None becomes AstConvertError)
resolve_literal_types(c, source_ns) ==
    CASE c.kind = "String" -> Ok([tag |-> "Atomic", uri |-> STRING_URI])
      [] c.kind = "Integer" -> Ok([tag |-> "Atomic", uri |-> INTEGER_URI])
      [] c.kind = "Boolean" -> Ok([tag |-> "Atomic", uri |-> BOOLEAN_URI])
      [] c.kind = "Custom" ->
           IF ctx_lookup("TypeDef", typedef_resolver, c.type, source_ns).ok
           THEN Panic("not yet implemented: resolve custom types")
           ELSE ParseError("AstConvertError")
      [] OTHER -> ParseError("AstConvertError")

\* fn_output_to_resolved
fn_output_to_resolved(fn_out, source_ns) ==
    IF fn_out.tag \in {"Atomic", "AtomicBag"}
    THEN With(ctx_lookup("TypeDef", typedef_resolver, fn_out.name, source_ns), LAMBDA t :
           IF t.ok THEN Ok([tag |-> fn_out.tag, uri |-> t.val.uri]) ELSE t)
    ELSE Ok([tag |-> fn_out.tag, uri |-> ""])

\* check_infix_sign_compat: "true", "false", or "panic" when it panics
check_infix_sign_compat(infix, first_arg_type, second_arg_type, sig_first_type, sig_second_type, signature) ==
    IF first_arg_type.tag = "Atomic" /\ first_arg_type.uri # sig_first_type THEN "false"
    ELSE IF first_arg_type.tag \notin {"Atomic", "AtomicBag"} THEN "panic"
    ELSE IF second_arg_type.tag = "Atomic" /\ second_arg_type.uri # sig_second_type
         THEN "false"
    ELSE "true"

\* resolve_infix_signature
resolve_infix_signature(infix, first_arg_type, second_arg_type) ==
    LET RECURSIVE signatures(_)
        signatures(k) ==
            IF k > Len(infix.signatures) THEN ParseError("InfixNoMatchingSignature")
            ELSE LET s == infix.signatures[k]
                     first_type == ctx_lookup("TypeDef", typedef_resolver, s.first_arg, infix.ns)
                     second_type == ctx_lookup("TypeDef", typedef_resolver, s.second_arg, infix.ns)
                     output_type == ctx_lookup("TypeDef", typedef_resolver, s.output, infix.ns)
                 IN  IF ~first_type.ok THEN first_type
                     ELSE IF ~second_type.ok THEN second_type
                     ELSE IF ~output_type.ok THEN output_type
                     ELSE With(check_infix_sign_compat(infix, first_arg_type, second_arg_type,
                                   first_type.val.uri, second_type.val.uri, s),
                               LAMBDA compat :
                                 IF compat = "panic"
                                 THEN Panic("AnyAtomicBag/AnyAtomic are not valid arguments to an infix operator.")
                                 ELSE IF compat = "true" THEN Ok(s)
                                 ELSE signatures(k + 1))
    IN  signatures(1)

\* type_for_expr and sig_and_type_for_infix; the latter runs the loop of
\* resolve_infix_signature over the signatures and ends in AstConvertError
\* when none is compatible
RECURSIVE type_for_expr(_, _), sig_and_type_for_infix(_, _, _, _)
type_for_expr(e, source_ns) ==
    CASE e.tag = "Infix" ->
           With(sig_and_type_for_infix(e.e1, e.op, e.e2, source_ns), LAMBDA st :
             IF st.ok THEN Ok(st.val.type) ELSE st)
      [] e.tag = "Lit" -> resolve_literal_types(e.c, source_ns)
      [] e.tag = "Attr" ->
           With(ctx_lookup("Attribute", attribute_resolver, Join(e.name, "."), source_ns),
                LAMBDA attr :
             IF ~attr.ok THEN attr
             ELSE With(ctx_lookup("TypeDef", typedef_resolver, attr.val.typedef,
                                  <<Join(attr.val.ns, ".")>>), LAMBDA typedef :
                    IF typedef.ok THEN Ok([tag |-> "AtomicBag", uri |-> typedef.val.uri])
                    ELSE typedef))
      [] e.tag = "Fn" ->
           With(ctx_lookup("Function", function_resolver, Join(e.name, "."), source_ns),
                LAMBDA func :
             IF ~func.ok THEN func
             ELSE fn_output_to_resolved(func.val.output_arg, func.val.ns))
      [] OTHER -> ParseError("AstConvertError")
sig_and_type_for_infix(arg1, op, arg2, source_ns) ==
    With(ctx_lookup("Infix", infix_resolver, op, source_ns), LAMBDA infix :
      IF ~infix.ok THEN infix
      ELSE With(type_for_expr(arg1, source_ns), LAMBDA first_arg_type :
      IF ~first_arg_type.ok THEN first_arg_type
      ELSE With(type_for_expr(arg2, source_ns), LAMBDA second_arg_type :
      IF ~second_arg_type.ok THEN second_arg_type
      ELSE With(resolve_infix_signature(infix.val, first_arg_type.val, second_arg_type.val),
                LAMBDA op_fn_sig :
        IF ~op_fn_sig.ok
        THEN IF op_fn_sig.err.name = "InfixNoMatchingSignature"
             THEN ParseError("AstConvertError")
             ELSE op_fn_sig
        ELSE With(ctx_lookup("TypeDef", typedef_resolver, op_fn_sig.val.output, infix.val.ns),
                  LAMBDA output_type :
               IF ~output_type.ok THEN output_type
               ELSE Ok([sig |-> op_fn_sig.val,
                        type |-> [tag |-> "Atomic", uri |-> output_type.val.uri]]))))))

AnyOfAnyUri == "urn:oasis:names:tc:xacml:3.0:function:any-of-any"

\* create_infix_apply that lets every operator take bags
create_infix_apply_BagsAllowed(sig, args, first_arg_type, second_arg_type, infix) ==
    With(ctx_lookup("TypeDef", typedef_resolver, sig.output, infix.ns), LAMBDA output_typedef :
      IF ~output_typedef.ok THEN output_typedef
      ELSE IF ~is_bag(first_arg_type) /\ ~is_bag(second_arg_type)
      THEN Ok([tag |-> "Apply", function_uri |-> sig.uri, arguments |-> args,
               return_type |-> [tag |-> "Atomic", uri |-> output_typedef.val.uri]])
      ELSE Ok([tag |-> "Apply", function_uri |-> AnyOfAnyUri,
               arguments |-> <<[tag |-> "Function", function_uri |-> sig.uri]>> \o args,
               return_type |-> [tag |-> "Atomic", uri |-> output_typedef.val.uri]]))

\* create_infix_apply that applies the scalar function whatever the operands
create_infix_apply_NoWrap(sig, args, first_arg_type, second_arg_type, infix) ==
    With(ctx_lookup("TypeDef", typedef_resolver, sig.output, infix.ns), LAMBDA output_typedef :
      IF ~output_typedef.ok THEN output_typedef
      ELSE Ok([tag |-> "Apply", function_uri |-> sig.uri, arguments |-> args,
               return_type |-> [tag |-> "Atomic", uri |-> output_typedef.val.uri]]))

\* create_infix_apply
create_infix_apply(sig, args, first_arg_type, second_arg_type, infix) ==
    With(ctx_lookup("TypeDef", typedef_resolver, sig.output, infix.ns), LAMBDA output_typedef :
      IF ~output_typedef.ok THEN output_typedef
      ELSE LET output_typeres == [tag |-> "Atomic", uri |-> output_typedef.val.uri]
           IN  IF ~is_bag(first_arg_type) /\ ~is_bag(second_arg_type)
               THEN Ok([tag |-> "Apply", function_uri |-> sig.uri, arguments |-> args,
                        return_type |-> output_typeres])
               ELSE IF infix.allow_bags
               THEN IF output_typedef.val.uri = BOOLEAN_URI
                    THEN Ok([tag |-> "Apply", function_uri |-> AnyOfAnyUri,
                             arguments |-> <<[tag |-> "Function", function_uri |-> sig.uri]>>
                                           \o args,
                             return_type |-> output_typeres])
                    ELSE ParseError("InfixBagsBooleanRequired")
               ELSE ParseError("InfixBagsDisallowed"))

\* expr_to_xexpr with handle_literal, handle_function_call and
\* handle_attribute_designator, and handle_infix_expression
RECURSIVE expr_to_xexpr(_, _), handle_infix_expression(_, _, _, _)
expr_to_xexpr(e, source_ns) ==
    CASE e.tag = "Infix" -> handle_infix_expression(e.e1, e.op, e.e2, source_ns)
      [] e.tag = "Lit" ->
           With(constant_to_typedliteral(e.c, source_ns), LAMBDA v :
             IF v.ok THEN Ok([tag |-> "Value", v |-> v.val]) ELSE v)
      [] e.tag = "Fn" ->
           With(ctx_lookup("Function", function_resolver, Join(e.name, "."), source_ns),
                LAMBDA func :
             IF ~func.ok THEN func
             ELSE LET RECURSIVE arguments(_)
                      arguments(k) ==
                          IF k > Len(e.args) THEN Ok(<<>>)
                          ELSE With(expr_to_xexpr(e.args[k], source_ns), LAMBDA a :
                                 IF ~a.ok THEN a
                                 ELSE With(arguments(k + 1), LAMBDA rest :
                                        IF rest.ok THEN Ok(<<a.val>> \o rest.val) ELSE rest))
                  IN  With(arguments(1), LAMBDA args :
                        IF ~args.ok THEN args
                        ELSE With(fn_output_to_resolved(func.val.output_arg, func.val.ns),
                                  LAMBDA return_type :
                               IF ~return_type.ok THEN return_type
                               ELSE Ok([tag |-> "Apply",
                                        function_uri |-> func.val.function_uri,
                                        arguments |-> args.val,
                                        return_type |-> return_type.val]))))
      [] e.tag = "Attr" ->
           With(ctx_lookup("Attribute", attribute_resolver, Join(e.name, "."), source_ns),
                LAMBDA attr :
             IF ~attr.ok THEN attr
             ELSE With(ctx_lookup("TypeDef", typedef_resolver, attr.val.typedef, attr.val.ns),
                       LAMBDA type :
             IF ~type.ok THEN type
             ELSE With(ctx_lookup("Category", category_resolver, attr.val.category,
                                  attr.val.ns), LAMBDA category :
             IF ~category.ok THEN category
             ELSE Ok([tag |-> "Attrib", uri |-> attr.val.uri, category |-> category.val.uri,
                      type_uri |-> type.val.uri]))))
      [] OTHER -> ParseError("AstConvertError")
handle_infix_expression(ce1, o, ce2, source_ns) ==
    With(ctx_lookup("Infix", infix_resolver, o, source_ns), LAMBDA infix :
      IF ~infix.ok THEN infix
      ELSE With(type_for_expr(ce1, source_ns), LAMBDA first_arg_type :
      IF ~first_arg_type.ok THEN first_arg_type
      ELSE With(type_for_expr(ce2, source_ns), LAMBDA second_arg_type :
      IF ~second_arg_type.ok THEN second_arg_type
      ELSE With(resolve_infix_signature(infix.val, first_arg_type.val, second_arg_type.val),
                LAMBDA sig :
      IF ~sig.ok THEN sig
      ELSE With(expr_to_xexpr(ce1, source_ns), LAMBDA a1 :
      IF ~a1.ok THEN a1
      ELSE With(expr_to_xexpr(ce2, source_ns), LAMBDA a2 :
      IF ~a2.ok THEN a2
      ELSE create_infix_apply(sig.val, <<a1.val, a2.val>>, first_arg_type.val,
                              second_arg_type.val, infix.val)))))))

\* XCondition::try_from without the check of the expression's type
XCondition_try_from_AnyType(c) ==
    With(expr_to_xexpr(c.cond_expr, c.ns), LAMBDA expr :
      IF expr.ok THEN Ok([expr |-> expr.val]) ELSE expr)

\* XCondition::try_from
XCondition_try_from(c) ==
    With(type_for_expr(c.cond_expr, c.ns), LAMBDA t :
      IF ~t.ok /\ t.err.name = "panic" THEN t
      ELSE IF t.ok /\ t.val.tag = "Atomic"
      THEN IF t.val.uri # BOOLEAN_URI
           THEN SrcError_err("Conditions must evaluate to booleans",
                             "type is " \o t.val.uri, c.src_loc)
           ELSE With(expr_to_xexpr(c.cond_expr, c.ns), LAMBDA expr :
                  IF expr.ok THEN Ok([expr |-> expr.val]) ELSE expr)
      ELSE SrcError_err("Conditions must evaluate to atomic booleans",
                        "non-atomic type", c.src_loc))

\* the expressions of the modelled sources: operands, infix expressions over
\* them, and function calls on an infix expression
Operands ==
    { [tag |-> "Lit", c |-> c] : c \in Constants }
    \cup { [tag |-> "Attr", name |-> a] : a \in AttributeNames }
    \cup { [tag |-> "Fn", name |-> f, args |-> <<[tag |-> "Attr", name |-> <<"subjectId">>]>>] :
             f \in FunctionNames }
InfixExprs ==
    { [tag |-> "Infix", e1 |-> a, op |-> o, e2 |-> b] :
        a \in Operands, o \in OperatorNames, b \in Operands }

\* a condition written at src_loc in namespace A is converted (XRule::try_from)
CompileCondition(e, src_loc) ==
    /\ phase = "convert"
    /\ exprCall = Written("condition", e)
    /\ \E c \in {[cond_expr |-> e, ns |-> <<"A">>, src_loc |-> src_loc]} :
          exprCall' = [called |-> TRUE, what |-> "condition", written |-> e,
                       src_loc |-> src_loc,
                       type |-> type_for_expr(e, c.ns),
                       res |-> XCondition_try_from(c)]
    /\ UNCHANGED <<phase, imports, rule_resolver, lookupCall, policy_resolver,
                   policyset_resolver, used_uris, counterVars, slots, top,
                   regCall, lastConv, decCall>>

\* an infix expression met inside a larger expression is converted (expr_to_xexpr)
CompileInfix(e) ==
    /\ phase = "convert"
    /\ exprCall = Written("infix", e)
    /\ exprCall' = [called |-> TRUE, what |-> "infix", written |-> e,
                    res |-> handle_infix_expression(e.e1, e.op, e.e2, <<"A">>)]
    /\ UNCHANGED <<phase, imports, rule_resolver, lookupCall, policy_resolver,
                   policyset_resolver, used_uris, counterVars, slots, top,
                   regCall, lastConv, decCall>>

InitExpr ==
    /\ InitContext
    /\ phase = "build"
    /\ rule_resolver = EmptyMap
    /\ lookupCall = NoCall
    /\ slots = <<>>
    /\ top = <<>>
    /\ regCall = NoCall
    /\ lastConv = NoCall
    /\ decCall = NoCall
    /\ exprCall \in { Written("match", w) : w \in TargetMatches }
                  \cup { Written("condition", e) : e \in Operands \cup InfixExprs }
                  \cup { Written("infix", e) : e \in InfixExprs }

NextExpr ==
    \/ StartConversion
    \/ \E w \in TargetMatches : CompileMatch(w)
    \/ \E e \in Operands \cup InfixExprs : CompileCondition(e, SrcLoc(3))
    \/ \E e \in InfixExprs : CompileInfix(e)

\* targets and conditions only
SpecExpr == InitExpr /\ [][NextExpr]_vars

\* ---------------------------------------------------------------------------
\* Reversed target matches

\* the match written with the given rule was converted, its literal and its
\* operator being known
MatchConverted(r) ==
    /\ exprCall.called
    /\ exprCall.what = "match"
    /\ exprCall.written.r = r
    /\ constant_to_typedliteral(
           exprCall.written.tokens[IF r = "target_match_op" THEN 1 ELSE 3], <<"A">>).ok
    /\ ctx_lookup("Infix", infix_resolver, exprCall.written.tokens[2], <<"A">>).ok

\* what a reversed match must come to: the operator's own signature when it is
\* commutative, its inverse's signature when it declares one, the error otherwise
ReversedOutcome ==
    LET o == exprCall.written.tokens[2]
        own == ctx_lookup("Infix", infix_resolver, o, <<"A">>).val
        uris(infix) == { infix.signatures[k].uri : k \in DOMAIN infix.signatures }
    IN  IF own.commutative
        THEN /\ exprCall.res.ok => exprCall.res.val.matchid \in uris(own)
             /\ exprCall.res # ParseError("ReversedInfixArgsNotCommutativeError")
        ELSE IF IsSome(own.inverse)
        THEN /\ exprCall.res.ok =>
                  exprCall.res.val.matchid \in uris(lookup_infix_inverse(o, <<"A">>).val)
             /\ exprCall.res # ParseError("ReversedInfixArgsNotCommutativeError")
        ELSE exprCall.res = ParseError("ReversedInfixArgsNotCommutativeError")

\* C14 as stated: a target match written literal OP attribute uses the
\* operator's own signature when the operator is commutative, the inverse
\* operator's signature when one is declared, and fails with
\* ReversedInfixArgsNotCommutativeError otherwise
C14_LiteralFirstIsReversed ==
    MatchConverted("target_match_op") => ReversedOutcome

\* C14 amended: it is the target match written attribute OP literal that is
\* reversed: own signature when commutative, the inverse operator's signature
\* when one is declared, ReversedInfixArgsNotCommutativeError otherwise; and
\* age < 5 compiles to integer-greater-than applied to 5 and the designator
C14_AttributeFirstIsReversed ==
    /\ MatchConverted("target_match_rev_op") => ReversedOutcome
    /\ (/\ exprCall.called
        /\ exprCall.what = "match"
        /\ exprCall.written = [r |-> "target_match_rev_op",
                               tokens |-> << <<"age">>, "<",
                                   [kind |-> "Integer", v |-> "5", type |-> ""] >>])
       => /\ exprCall.res.ok
          /\ exprCall.res.val.matchid
               = "urn:oasis:names:tc:xacml:1.0:function:integer-greater-than"
          /\ exprCall.res.val.value = "5"
          /\ exprCall.res.val.designator_id = "urn:example:age"

C14_Witness ==
    /\ MatchConverted("target_match_rev_op")
    /\ exprCall.written.tokens[1] = <<"age">>
    /\ exprCall.written.tokens[2] = "<"
    /\ exprCall.res.ok
    /\ exprCall.res.val.matchid
         = "urn:oasis:names:tc:xacml:1.0:function:integer-greater-than"

\* ---------------------------------------------------------------------------
\* Infix expressions

\* the steps of handle_infix_expression on the infix expression converted last:
\* the operator, the operands' types, the signature matched and the operands
\* converted
InfixParts ==
    LET e == exprCall.written
        infix == ctx_lookup("Infix", infix_resolver, e.op, <<"A">>)
        t1 == type_for_expr(e.e1, <<"A">>)
        t2 == type_for_expr(e.e2, <<"A">>)
        typed == infix.ok /\ t1.ok /\ t2.ok
        sig == IF typed THEN resolve_infix_signature(infix.val, t1.val, t2.val)
               ELSE ParseError("AstConvertError")
    IN  [converted |-> exprCall.called /\ exprCall.what = "infix",
         typed |-> typed, infix |-> infix, t1 |-> t1, t2 |-> t2, sig |-> sig,
         output |-> IF sig.ok
                    THEN ctx_lookup("TypeDef", typedef_resolver, sig.val.output,
                                    infix.val.ns).val.uri
                    ELSE "",
         a1 |-> expr_to_xexpr(e.e1, <<"A">>), a2 |-> expr_to_xexpr(e.e2, <<"A">>)]

\* C15: with an allow_bags operator and a matched signature of boolean output,
\* a bag operand makes the expression any-of-any applied to the matched scalar
\* function, the first operand and the second operand in the order written;
\* with no bag operand the scalar function is applied to the two operands
C15_AnyOfAnyWrapsBagOperands ==
    LET p == InfixParts
    IN  (/\ exprCall.called /\ exprCall.what = "infix"
         /\ p.sig.ok /\ p.infix.val.allow_bags /\ p.output = BOOLEAN_URI
         /\ p.a1.ok /\ p.a2.ok)
        => /\ exprCall.res.ok
           /\ exprCall.res.val.tag = "Apply"
           /\ IF is_bag(p.t1.val) \/ is_bag(p.t2.val)
              THEN /\ exprCall.res.val.function_uri = AnyOfAnyUri
                   /\ exprCall.res.val.arguments
                        = << [tag |-> "Function", function_uri |-> p.sig.val.uri],
                             p.a1.val, p.a2.val >>
              ELSE /\ exprCall.res.val.function_uri = p.sig.val.uri
                   /\ exprCall.res.val.arguments = << p.a1.val, p.a2.val >>

\* subjectId == "5" was converted to any-of-any(string-equal, subjectId, "5")
C15_Witness ==
    /\ exprCall.called /\ exprCall.what = "infix"
    /\ exprCall.written = [tag |-> "Infix",
                           e1 |-> [tag |-> "Attr", name |-> <<"subjectId">>],
                           op |-> "==",
                           e2 |-> [tag |-> "Lit",
                                   c |-> [kind |-> "String", v |-> "5", type |-> ""]]]
    /\ exprCall.res.ok
    /\ exprCall.res.val.function_uri = AnyOfAnyUri
    /\ exprCall.res.val.arguments[1]
         = [tag |-> "Function",
            function_uri |-> "urn:oasis:names:tc:xacml:1.0:function:string-equal"]
    /\ exprCall.res.val.arguments[2].tag = "Attrib"
    /\ exprCall.res.val.arguments[3].tag = "Value"

\* C16 as stated: an infix expression with a bag operand fails with
\* InfixBagsDisallowed when its operator is not declared allow_bags, and with
\* InfixBagsBooleanRequired when it is and the matched signature's output is
\* not boolean
C16_BagOperandErrors ==
    LET p == InfixParts
    IN  (/\ exprCall.called /\ exprCall.what = "infix"
         /\ p.typed /\ (is_bag(p.t1.val) \/ is_bag(p.t2.val)))
        => /\ ~p.infix.val.allow_bags
                => exprCall.res = ParseError("InfixBagsDisallowed")
           /\ (p.infix.val.allow_bags /\ p.sig.ok /\ p.output # BOOLEAN_URI)
                => exprCall.res = ParseError("InfixBagsBooleanRequired")

\* C16 amended: when a signature is matched, an infix expression with a bag
\* operand fails with InfixBagsDisallowed if its operator is not declared
\* allow_bags, and with InfixBagsBooleanRequired if it is and the matched
\* signature's output is not boolean; when resolution ends without a match it
\* fails with InfixNoMatchingSignature; no expression is emitted in any of these
C16_BagOperandErrorsWhenMatched ==
    LET p == InfixParts
    IN  (/\ exprCall.called /\ exprCall.what = "infix"
         /\ p.typed /\ (is_bag(p.t1.val) \/ is_bag(p.t2.val)))
        => /\ (p.sig.ok /\ ~p.infix.val.allow_bags)
                => exprCall.res = ParseError("InfixBagsDisallowed")
           /\ (p.sig.ok /\ p.infix.val.allow_bags /\ p.output # BOOLEAN_URI)
                => exprCall.res = ParseError("InfixBagsBooleanRequired")
           /\ p.sig = ParseError("InfixNoMatchingSignature")
                => exprCall.res = ParseError("InfixNoMatchingSignature")

\* subjectId - 5 was refused with InfixBagsDisallowed
C16_Witness ==
    /\ exprCall.called /\ exprCall.what = "infix"
    /\ exprCall.written.e1 = [tag |-> "Attr", name |-> <<"subjectId">>]
    /\ exprCall.written.op = "-"
    /\ InfixParts.sig.ok
    /\ exprCall.res = ParseError("InfixBagsDisallowed")

\* C17: overload resolution selects the first declared signature whose two
\* argument types equal the base types of the first and the second operand, and
\* fails with InfixNoMatchingSignature when no declared signature does
C17_FirstSignatureOfBaseTypes ==
    LET p == InfixParts
        infix == p.infix.val
        uri(t) == ctx_lookup("TypeDef", typedef_resolver, t, infix.ns).val.uri
        matching == { k \in DOMAIN infix.signatures :
                        /\ uri(infix.signatures[k].first_arg) = p.t1.val.uri
                        /\ uri(infix.signatures[k].second_arg) = p.t2.val.uri }
    IN  (/\ exprCall.called /\ exprCall.what = "infix"
         /\ p.typed
         /\ {p.t1.val.tag, p.t2.val.tag} \subseteq {"Atomic", "AtomicBag"})
        => IF matching # {}
           THEN p.sig = Ok(infix.signatures[CHOOSE k \in matching :
                                               \A j \in matching : k <= j])
           ELSE /\ p.sig = ParseError("InfixNoMatchingSignature")
                /\ exprCall.res = ParseError("InfixNoMatchingSignature")

\* ---------------------------------------------------------------------------
\* Conditions

\* C18: a condition compiles only if its expression's type is exactly
\* atomic(boolean); when the type is a bag, an any-placeholder or an atomic
\* other than boolean the condition fails with ConditionBooleanRequired, which
\* names the place of the condition
C18_ConditionAtomicBoolean ==
    (exprCall.called /\ exprCall.what = "condition")
    => /\ exprCall.res.ok
            => /\ exprCall.type.ok
               /\ exprCall.type.val = [tag |-> "Atomic", uri |-> BOOLEAN_URI]
       /\ (exprCall.type.ok /\ exprCall.type.val # [tag |-> "Atomic", uri |-> BOOLEAN_URI])
            => /\ ~exprCall.res.ok
               /\ exprCall.res.err.name = "ConditionBooleanRequired"
               /\ exprCall.res.err.src_loc = exprCall.src_loc

\* the bare attribute designator subjectId, which types as a bag, was refused
C18_Witness ==
    /\ exprCall.called /\ exprCall.what = "condition"
    /\ exprCall.written = [tag |-> "Attr", name |-> <<"subjectId">>]
    /\ exprCall.type = Ok([tag |-> "AtomicBag", uri |-> STRING_URI])
    /\ ~exprCall.res.ok
    /\ exprCall.res.err.name = "ConditionBooleanRequired"

\* ---------------------------------------------------------------------------
\* decondition without a condition

\* C19: decondition of a Policy without condition fails with PolicyNoCondition,
\* of a PolicySet without condition with PolicySetNoCondition; nothing is
\* produced, and the Context and the element are as they were before the call
C19_NoConditionFails ==
    (decCall.called /\ IsNone(decCall.inp.condition))
    => /\ decCall.res = IF decCall.inp.kind = "Policy"
                        THEN Err("PolicyNoCondition")
                        ELSE Err("PolicySetNoCondition")
       /\ decCall.after = decCall.before
       /\ \E i \in 1..Len(top) : top[i] = decCall.inp

\* both a Policy and a PolicySet without condition are declared, and
\* decondition of the PolicySet was refused
C19_Witness ==
    /\ decCall.called
    /\ decCall.inp.kind = "PolicySet"
    /\ IsNone(decCall.inp.condition)
    /\ decCall.res = Err("PolicySetNoCondition")
    /\ \E i \in 1..Len(top) : top[i].kind = "Policy" /\ IsNone(top[i].condition)

\* ---------------------------------------------------------------------------
\* Aborts

\* C20: no target match, condition or infix expression written in a source
\* makes the compiler abort: whatever fails is returned as an error
C20_NoHardAbort ==
    exprCall.called => (exprCall.res.ok \/ exprCall.res.err.name # "panic")

\* ---------------------------------------------------------------------------
\* Imports and the first two lookup rules

\* C21: when a lookup is resolved by rule 1 or rule 2, an import statement
\* added to the namespace of the reference or to the default namespace leaves
\* the lookup returning the same entity, and never an error
C21_ImportsDoNotShadow ==
    (lookupCall.called /\ FirstMatchingRule \in {1, 2})
    => /\ lookupCall.res.ok
       /\ \A ns \in ImportNamespaces, imp \in ImportChoices :
            lookup(lookupCall.which, CallElements, lookupCall.symbol,
                   lookupCall.source_ns, lookupCall.src_loc,
                   get_imports(register_import(imports, ns, imp), lookupCall.source_ns))
              = lookupCall.res

\* R1 was resolved by rule 1 from a namespace that has an import of another R1
C21_Witness ==
    /\ lookupCall.called
    /\ lookupCall.which = "RuleDef"
    /\ FirstMatchingRule = 1
    /\ \E j \in 1..Len(ActiveImports) :
          ActiveImports[j] = [components |-> <<"B", "R1">>, is_wildcard |-> FALSE]
    /\ "B.R1" \in DOMAIN rule_resolver
    /\ lookupCall.res = Ok(rule_resolver[ChildName])

\* ---------------------------------------------------------------------------
\* Name paths under a deconditioned element

\* C22: after decondition, the Generated Name Path of everything nested in
\* the original (the policies and policysets under the "orig" child and the
\* rules they hold, at any depth) has the "orig" segment right after the
\* wrapper's own segment
C22_NestedPathsThreadOrig ==
    \A d \in Deconditionings :
        d.res.ok =>
            LET wrapper == d.res.val
                orig == wrapper.policies[2]
                at == Len(wrapper.policy_ns) + 1
                nested == { x.policy_ns : x \in Elements(orig) \ {orig} }
                          \cup UNION { { x.rules[k].policy_ns : k \in 1..Len(x.rules) } :
                                         x \in Elements(orig) }
            IN  \A path \in nested :
                    /\ Len(path) >= at
                    /\ d.slots[path[at]] = Some("orig")

\* ---------------------------------------------------------------------------
\* Counters

\* C23: a draw from a counter of a namespace returns a value above every value
\* drawn from it before, the counter then standing at the value returned, also
\* when the value drawn before was rejected as a colliding name; and no step
\* lowers, resets or removes a counter
C23_CountersOnlyAdvance ==
    [][LET Fresh(map, n, ns) ==
               /\ ns \in DOMAIN map => n.id > map[ns]
               /\ ns \notin DOMAIN map => n.id = 0
               /\ DOMAIN n.map = DOMAIN map \cup {ns}
               /\ n.map[ns] = n.id
               /\ \A o \in DOMAIN map \ {ns} : n.map[o] = map[o]
           Draws(rules, policies, policysets) ==
               \A source_ns \in PolicyNamespaces :
                   LET ns == Join(source_ns, ".")
                   IN  /\ Fresh(rules, get_next_rule_id(rules, ns), ns)
                       /\ Fresh(policies, get_next_policy_id(policies, ns), ns)
                       /\ Fresh(policysets, get_next_policyset_id(policysets, ns), ns)
           Kept(map, next) ==
               \A ns \in DOMAIN map : ns \in DOMAIN next /\ next[ns] >= map[ns]
       IN  /\ Draws(rule_id_mapping, policy_id_mapping, policyset_id_mapping)
           /\ Draws(rule_id_mapping', policy_id_mapping', policyset_id_mapping')
           /\ Kept(rule_id_mapping, rule_id_mapping')
           /\ Kept(policy_id_mapping, policy_id_mapping')
           /\ Kept(policyset_id_mapping, policyset_id_mapping')]_vars

\* an anonymous policy of namespace A was named policy_1 after policy_0, drawn
\* first, was rejected because a policy of that name is registered
C23_Witness ==
    /\ lastConv.called
    /\ "A.policy_0" \in DOMAIN policy_resolver
    /\ "A" \in DOMAIN policy_id_mapping
    /\ policy_id_mapping["A"] = 1
    /\ "A" \in DOMAIN rule_id_mapping
    /\ \E e \in Finalized :
          /\ e.kind = "Policy"
          /\ e.ns = <<"A">>
          /\ slots[Last(e.policy_ns)] = Some("policy_1")

\* ---------------------------------------------------------------------------
\* finalize_id

\* C24: finalize_id on an element whose last slot is empty fills the slot; a
\* further finalize_id on the element, or on the wrapper that deconditioning
\* makes of it and that shares the slot, changes no slot and draws from no
\* counter; and no step changes a slot that is filled
C24_FinalizeOnce ==
    [][/\ \A e \in AllElems :
            LET finalize_id(st, x) == IF x.kind = "Policy"
                                      THEN policy_finalize_id(st, x)
                                      ELSE policyset_finalize_id(st, x)
                st1 == finalize_id(ConvState, e)
            IN  /\ IsSome(st1.slots[Last(e.policy_ns)])
                /\ IsSome(slots[Last(e.policy_ns)]) => st1 = ConvState
                /\ finalize_id(st1, e) = st1
                /\ policyset_finalize_id(st1, Container(e)) = st1
       /\ \A k \in 1..Len(slots) :
            IsSome(slots[k]) => (k <= Len(slots') /\ slots'[k] = slots[k])]_vars

\* an anonymous policy with a condition was converted: its slot was filled
\* through the wrapper and the policy itself was finalized afterwards
C24_Witness ==
    /\ lastConv.called
    /\ lastConv.res.ok
    /\ \E e \in Finalized :
          /\ e.kind = "Policy"
          /\ IsSome(e.condition)
          /\ \E d \in Deconditionings : d.inp = e

\* C25: finalize_id on an element whose slot is empty ends with the slot
\* filled, after at most one draw more than there are registered policies:
\* every name it proposes takes one new counter value
C25_FinalizeTerminates ==
    \A e \in AllElems :
        IsNone(slots[Last(e.policy_ns)]) =>
            LET ns == Join(e.ns, ".")
                st1 == IF e.kind = "Policy"
                       THEN policy_finalize_id(ConvState, e)
                       ELSE policyset_finalize_id(ConvState, e)
                drawn(st) == LET map == IF e.kind = "Policy"
                                        THEN st.policy_id_mapping
                                        ELSE st.policyset_id_mapping
                             IN  IF ns \in DOMAIN map THEN map[ns] + 1 ELSE 0
            IN  /\ IsSome(st1.slots[Last(e.policy_ns)])
                /\ st1.panic = ""
                /\ drawn(st1) - drawn(ConvState) >= 1
                /\ drawn(st1) - drawn(ConvState)
                     <= Cardinality(DOMAIN policy_resolver) + 1

\* an anonymous policy of namespace A waits for its name while a policy named
\* policy_0 is registered there: finalize_id draws twice
C25_Witness ==
    /\ phase = "convert"
    /\ "A.policy_0" \in DOMAIN policy_resolver
    /\ \E e \in AllElems :
          /\ e.kind = "Policy"
          /\ e.ns = <<"A">>
          /\ IsNone(slots[Last(e.policy_ns)])
          /\ "A" \notin DOMAIN policy_id_mapping
          /\ policy_finalize_id(ConvState, e).policy_id_mapping["A"] = 1

\* ---------------------------------------------------------------------------
\* Identifiers are read from resolvable paths

\* an emitted element and everything emitted under it
RECURSIVE XElements(_)
XElements(x) ==
    {x} \cup UNION { XElements(x.children[k]) : k \in 1..Len(x.children) }

C27_ResolvableIffAllFilled ==
    LET paths == {<<>>} \cup { e.policy_ns : e \in AllElems }
        empty(path) == { k \in 1..Len(path) : IsNone(slots[path[k]]) }
    IN  \A path \in paths :
            /\ is_resolvable(slots, path) <=> empty(path) = {}
            /\ is_resolvable(slots, path) <=> IsSome(build_path(slots, path, "."))
            /\ empty(path) = {} =>
                  build_path(slots, path, "/")
                    = Some(Join([k \in 1..Len(path) |-> Unwrap(slots[path[k]])], "/"))
            /\ \A k \in empty(path) :
                  LET filled == [slots EXCEPT ![path[k]] = Some("policy_0")]
                  IN  \A other \in paths :
                          (\A j \in 1..Len(other) :
                               IsNone(slots[other[j]]) => other[j] = path[k])
                              => /\ is_resolvable(filled, other)
                                 /\ IsSome(build_path(filled, other, "."))

\* a named policy sits in an anonymous policyset that has no name yet: its
\* path has an empty slot followed by a filled one
C27_Witness ==
    \E e \in AllElems :
        /\ Len(e.policy_ns) = 2
        /\ IsNone(slots[e.policy_ns[1]])
        /\ IsSome(slots[e.policy_ns[2]])
        /\ ~is_resolvable(slots, e.policy_ns)
        /\ IsNone(build_path(slots, e.policy_ns, "."))

\* a path with the entry at one position taken out
WithoutAt(path, j) == SubSeq(path, 1, j - 1) \o SubSeq(path, j + 1, Len(path))

\* C28: a child element holds the slots of its enclosing elements, in order,
\* followed by its own new slot, and a rule holds the path of its Policy;
\* the registered copies and the copies made by deconditioning keep those
\* slots, so that the name generated for an enclosing element shows in the
\* path and identifier of every element below it as soon as it is drawn.
C28_DescendantsShareSlots ==
    /\ \A e \in AllElems :
          /\ \A k \in 1..Len(e.policies) :
                LET c == e.policies[k]
                IN  /\ Len(c.policy_ns) = Len(e.policy_ns) + 1
                    /\ SubSeq(c.policy_ns, 1, Len(e.policy_ns)) = e.policy_ns
                    /\ \A j \in 1..Len(e.policy_ns) : e.policy_ns[j] # Last(c.policy_ns)
                    /\ (is_resolvable(slots, c.policy_ns) /\ c.id.tag # "PolicyNameAndId"
                         /\ e.id.tag # "PolicyNameAndId")
                          => get_id(slots, c) = get_id(slots, e) \o "/"
                                                  \o Unwrap(slots[Last(c.policy_ns)])
          /\ \A k \in 1..Len(e.rules) : e.rules[k].policy_ns = e.policy_ns
    /\ \A n \in DOMAIN policy_resolver :
          \E e \in AllElems : policy_resolver[n].policy_ns = e.policy_ns
    /\ \A n \in DOMAIN policyset_resolver :
          \E e \in AllElems : policyset_resolver[n].policy_ns = e.policy_ns
    /\ \A d \in Deconditionings :
          d.res.ok =>
              /\ d.res.val.policy_ns = d.inp.policy_ns
              /\ \A y \in Elements(d.res.val.policies[2]) :
                    \E x \in Elements(d.inp) :
                        WithoutAt(y.policy_ns, Len(d.inp.policy_ns) + 1) = x.policy_ns

\* an anonymous policyset holding an anonymous policy has been converted:
\* the name drawn for the policyset is part of the policy's identifier
C28_Witness ==
    /\ lastConv.called /\ lastConv.res.ok
    /\ \E e \in Finalized :
          /\ e.kind = "PolicySet" /\ Len(e.policy_ns) = 1
          /\ \E k \in 1..Len(e.policies) :
                LET c == e.policies[k]
                IN  /\ c \in Finalized
                    /\ get_id(slots, c) = BaseNamespace \o Join(e.ns, "/") \o "/"
                                            \o Unwrap(slots[Last(e.policy_ns)]) \o "/"
                                            \o Unwrap(slots[Last(c.policy_ns)])

-----------------------------------------------------------------------------
(* Structural conversion errors *)

\* C29: converting a Policy that carries a condition to an XACML Policy fails
\* with PolicyHasCondition, and converting a Policy that carries no condition
\* to an XACML PolicySet fails with PolicyNoCondition.
C29_ErrorsNameTheDefect ==
    lastConv.called =>
        LET p == top[lastConv.idx]
        IN  /\ (lastConv.into = "XPolicy" /\ IsSome(p.condition))
                  => lastConv.res = Err("PolicyHasCondition")
            /\ (lastConv.into = "XPolicySet" /\ IsNone(p.condition))
                  => lastConv.res = Err("PolicyNoCondition")

-----------------------------------------------------------------------------
(* What a failed registration leaves behind *)

\* the explicit URIs of the elements of a set
UrisOf(es) == { x.id.uri : x \in { y \in es : y.id.tag = "PolicyNameAndId" } }

\* the entries of a resolver that a step adds
Added(before, after) == { after[n] : n \in DOMAIN after \ DOMAIN before }

\* every binding of a resolver is still what it was after a step
Kept(before, after) ==
    \A n \in DOMAIN before : n \in DOMAIN after /\ after[n] = before[n]

\* C30: a register_policy or register_policyset call that fails leaves the
\* Context exactly as it was before the call: no URI has been added to the
\* used-URI set and no child or entity has been added to any resolver.
C30_FailedRegistrationNoEffect ==
    [][(top' # top /\ ~regCall'.res.ok)
         => /\ used_uris' = used_uris
            /\ policy_resolver' = policy_resolver
            /\ policyset_resolver' = policyset_resolver]_vars

\* C30: a register_policy or register_policyset call that fails removes and
\* rebinds nothing and binds nothing to the element it was called on. A
\* failed register_policy leaves both resolvers as they were, and leaves the
\* used-URI set as it was when it fails with DuplicateURI; when it fails
\* otherwise the Policy's explicit URI has been added. A failed
\* register_policyset keeps the nested children registered before the
\* failure and their explicit URIs, and the PolicySet's own explicit URI
\* when the failure came after the URI check.
C30_FailedRegistrationEffect ==
    [][(top' # top /\ ~regCall'.res.ok)
         => LET e == regCall'.elem
                below == Elements(e) \ {e}
            IN  /\ used_uris \subseteq used_uris'
                /\ Kept(policy_resolver, policy_resolver')
                /\ Kept(policyset_resolver, policyset_resolver')
                /\ e.kind = "Policy"
                      => /\ policy_resolver' = policy_resolver
                         /\ policyset_resolver' = policyset_resolver
                         /\ used_uris' \ used_uris \subseteq UrisOf({e})
                         /\ regCall'.res = Err("DuplicateURI") => used_uris' = used_uris
                /\ e.kind = "PolicySet"
                      => /\ Added(policy_resolver, policy_resolver') \subseteq below
                         /\ Added(policyset_resolver, policyset_resolver') \subseteq below
                         /\ used_uris' \ used_uris \subseteq UrisOf(Elements(e))]_vars

\* the registration of a policyset has failed after one of its nested
\* policies was registered
C30_Witness ==
    /\ regCall.called /\ ~regCall.res.ok
    /\ regCall.elem.kind = "PolicySet"
    /\ \E n \in DOMAIN policy_resolver :
          policy_resolver[n] \in Elements(regCall.elem) \ {regCall.elem}

====
